---- MODULE Spec2Model ----
\* A model of the Riot API client of rift-legends (app/lib/riot-api.server.ts
\* and the cache of app/lib/db.server.ts): the counting semaphore, the
\* fetch pipeline with its retries, the TTL cache, and the in-flight
\* deduplication of match-detail fetches.
\*
\* The program runs on a single-threaded event loop: an action of the model
\* is the code that runs between two suspension points (an await).
EXTENDS Integers, Sequences, FiniteSets, TLC

\* ---------------------------------------------------------------- bounds

\* calls of acquire() in the semaphore-only specification
MaxSemCalls == 7
\* riotFetch calls in the pipeline specification
MaxFetchCalls == 6
\* upstream attempts that do not end in a 2xx, over all calls of FetchSpec
MaxFaults == 3
\* accessor calls in the accessor specification
MaxInv == 2
\* moves of the clock
MaxTicks == 1
MaxAccFaults == 1
MaxSnapshots == 2
MaxRankCalls == 2
MaxGames == 1
MaxLpSnapshots == 3
MaxLpTicks == 2
\* snapshots of one player over a season
MaxSeasonSnapshots == 101
\* snapshots taken between the batch aggregations
MaxBatchSnapshots == 2

\* ---------------------------------------------------- program constants

RiotSemaphoreMax == 5
MAX_RETRIES == 3
MAX_RATE_LIMIT_RETRIES == 3
RETRY_DELAY_MS == 2000

\* ------------------------------------------------------------ variables

VARIABLES
  active,            \* Semaphore.active
  queue,             \* Semaphore.queue: the waiting callers, oldest first
  max,               \* Semaphore.max
  RIOT_API_KEY,      \* TRUE iff process.env.RIOT_API_KEY is set
  nCalls,            \* riotFetch (or acquire) calls started so far; a call's
                     \* id is its rank in call order
  pc,                \* where each call is suspended
  attempt,           \* riotFetchInner's argument attempt
  rateLimitRetries,  \* riotFetchInner's argument rateLimitRetries
  result,            \* what riotFetchInner returned or threw
  hist,              \* history: the upstream outcomes of the call, in order
  sleeps,            \* history: the arguments of its sleep() calls, in order
  released,          \* history: how often the call ran release()
  waited,            \* history: the call was queued by acquire()
  faults,            \* history: upstream outcomes that were not a 2xx
  callKey,           \* the cache key of the resource a riotFetch call is for
  cache,             \* table riot_cache: cache_key -> (data, cached_at)
  now,               \* Math.floor(Date.now() / 1000)
  ticks,             \* history: how often the clock was moved
  orig,              \* history: the value last given to cacheSet, per key
  lastOp,            \* history: the last direct call of cacheGet or cacheSet
  nInv,              \* accessor calls started so far
  inv,               \* the accessor calls: what was asked, what came back
  prom,              \* the promise each accessor call created
  inflightMatches,   \* Map matchId -> pending promise (0: no entry)
  upstreamCalls,     \* history: riotFetch calls made, per key
  settledProms,      \* history: accessor promises settled, per key
  lastFetch,         \* history: how the newest fetch of a key stands
  lp_history,        \* the rows of table lp_history, in insertion order
  lastRec,           \* history: the last direct recordLpSnapshot call
  upstream,          \* what the league endpoint holds for each puuid
  nRk,               \* getRankedByPuuid calls started so far
  rk                 \* the getRankedByPuuid calls

semVars == <<active, queue, max>>
callVars == <<nCalls, pc, attempt, rateLimitRetries, result>>
histVars == <<hist, sleeps, released, waited, faults>>
cacheVars == <<cache, now, ticks, orig, lastOp>>
rankVars == <<lp_history, lastRec, upstream, nRk, rk>>
dedupVars == <<nInv, inv, prom, inflightMatches, upstreamCalls, settledProms, lastFetch>>
accVars == <<dedupVars, rankVars>>
vars == <<active, queue, max, RIOT_API_KEY, nCalls, pc, attempt,
          rateLimitRetries, result, hist, sleeps, released, waited, faults,
          callKey, cache, now, ticks, orig, lastOp, nInv, inv, prom,
          inflightMatches, upstreamCalls, settledProms, lastFetch,
          lp_history, lastRec, upstream, nRk, rk>>

Calls == 1 .. MaxSemCalls

\* -------------------------------------------------- upstream responses

\* The text of a Retry-After header is a sequence of decimal digits.
RetryAfterTexts == {<<>>, <<0>>, <<7>>, <<1, 0>>, <<0, 3>>}

Statuses == {200, 204, 400, 401, 403, 404, 429, 500, 503}

\* fetch() rejected: no response
NetErr == [net |-> TRUE, status |-> 0, hasRetryAfter |-> FALSE, retryAfter |-> <<>>]

Response(s, has, text) ==
  [net |-> FALSE, status |-> s, hasRetryAfter |-> has, retryAfter |-> text]

\* Only a 429 carries a Retry-After header that the code reads.
Outcomes ==
  {NetErr}
  \cup {Response(s, FALSE, <<>>) : s \in Statuses}
  \cup {Response(429, TRUE, t) : t \in RetryAfterTexts}

\* the outcomes the multi-call specifications draw from
FewOutcomes ==
  {NetErr, Response(200, FALSE, <<>>), Response(404, FALSE, <<>>)}

\* parseInt(text, 10) on a string of decimal digits
RECURSIVE parseInt10(_)
parseInt10(text) ==
  IF Len(text) = 0 THEN 0
  ELSE 10 * parseInt10(SubSeq(text, 1, Len(text) - 1)) + text[Len(text)]

\* parseInt(res.headers.get("Retry-After") || "2", 10): a missing header is
\* null and an empty one is "", and both are falsy
RetryAfterSeconds(o) ==
  parseInt10(IF o.hasRetryAfter /\ o.retryAfter # <<>> THEN o.retryAfter ELSE <<2>>)

\* Response.ok
ResOk(s) == s >= 200 /\ s <= 299

\* ------------------------------------------------------ riotFetchInner

Pending == [kind |-> "pending", status |-> 0, message |-> "none"]
Throw(s, m) == [kind |-> "throw", status |-> s, message |-> m]
Return(s) == [kind |-> "return", status |-> s, message |-> "ok"]
Sleep(ms, which) == [kind |-> "sleep", status |-> ms, message |-> which]

\* a mutant of riotFetchInner: the last network failure is retried once more
riotFetchInnerExtraAttempt(att, rl, o) ==
  IF o.net
  THEN IF att <= MAX_RETRIES
       THEN Sleep(RETRY_DELAY_MS * att, "retry")
       ELSE Throw(0, "Network error: failed to reach Riot API")
  ELSE Throw(o.status, "Riot API error")

\* a mutant of riotFetchInner: a 429 always waits the default two seconds
riotFetchInnerFixedDelay(att, rl, o) ==
  IF o.net
  THEN Throw(0, "Network error: failed to reach Riot API")
  ELSE IF o.status = 429
  THEN IF rl >= MAX_RATE_LIMIT_RETRIES
       THEN Throw(429, "Rate limited by Riot API (max retries exceeded)")
       ELSE Sleep(2 * 1000, "rate")
  ELSE Throw(o.status, "Riot API error")

\* a mutant of riotFetchInner: a 5xx response is never retried
riotFetchInnerNo5xxRetry(att, rl, o) ==
  IF o.net
  THEN IF att < MAX_RETRIES
       THEN Sleep(RETRY_DELAY_MS * att, "retry")
       ELSE Throw(0, "Network error: failed to reach Riot API")
  ELSE IF o.status = 429
  THEN IF rl >= MAX_RATE_LIMIT_RETRIES
       THEN Throw(429, "Rate limited by Riot API (max retries exceeded)")
       ELSE Sleep(RetryAfterSeconds(o) * 1000, "rate")
  ELSE IF ~ResOk(o.status) THEN Throw(o.status, "Riot API error")
  ELSE Return(o.status)

\* a mutant of riotFetchInner: every response that is not 2xx is retried
riotFetchInnerRetriesAnyError(att, rl, o) ==
  IF ~o.net /\ ResOk(o.status) THEN Return(o.status)
  ELSE IF att < MAX_RETRIES THEN Sleep(RETRY_DELAY_MS * att, "retry")
  ELSE Throw(o.status, "Riot API error")

\* What one run of riotFetchInner(url, att, rl) does with the outcome o of
\* its fetch(): sleep and call itself again, throw, or return the response.
riotFetchInner(att, rl, o) ==
  IF o.net
  THEN IF att < MAX_RETRIES
       THEN Sleep(RETRY_DELAY_MS * att, "retry")
       ELSE Throw(0, "Network error: failed to reach Riot API")
  ELSE IF o.status = 429
  THEN IF rl >= MAX_RATE_LIMIT_RETRIES
       THEN Throw(429, "Rate limited by Riot API (max retries exceeded)")
       ELSE Sleep(RetryAfterSeconds(o) * 1000, "rate")
  ELSE IF o.status >= 500 /\ att < MAX_RETRIES
  THEN Sleep(RETRY_DELAY_MS * att, "retry")
  ELSE IF o.status = 401 THEN Throw(401, "Riot API key is missing or invalid")
  ELSE IF o.status = 403 THEN Throw(403, "Riot API key is invalid or expired")
  ELSE IF o.status = 404 THEN Throw(404, "Not found")
  ELSE IF ~ResOk(o.status) THEN Throw(o.status, "Riot API error")
  ELSE Return(o.status)

\* ------------------------------------------------------------ the cache

ACCOUNT_TTL == 24 * 60 * 60
SUMMONER_TTL == 24 * 60 * 60
RANKED_TTL == 30 * 60
MATCH_LIST_TTL == 5 * 60
MATCH_DETAIL_TTL == 7 * 24 * 60 * 60

\* The accessors and the keys they build: `account:...`, `summoner:...`,
\* `matches:...` and `match:...`, here <<kind, id>>.
PlainKinds == {"account", "summoner", "matches"}
Kinds == PlainKinds \cup {"match", "ranked"}
MatchIds == {1, 2}
Puuids == {1, 2}
Keys ==
  {<<"account", 1>>, <<"matches", 1>>} \cup {<<"match", m>> : m \in MatchIds}
    \cup {<<"ranked", p>> : p \in Puuids}
NoKey == <<"none", 0>>

TtlOf(kind) ==
  CASE kind = "account" -> ACCOUNT_TTL
    [] kind = "summoner" -> SUMMONER_TTL
    [] kind = "matches" -> MATCH_LIST_TTL
    [] kind = "match" -> MATCH_DETAIL_TTL
    [] kind = "ranked" -> RANKED_TTL

\* The bodies that upstream sends are JSON arrays of small numbers.
Bodies == {<<7>>, <<4, 10>>}

Digits == <<"0", "1", "2", "3", "4", "5", "6", "7", "8", "9">>
DigitValue(ch) == (CHOOSE k \in 1 .. 10 : Digits[k] = ch) - 1

RECURSIVE NumberText(_)
NumberText(n) ==
  IF n < 10 THEN <<Digits[n + 1]>>
  ELSE NumberText(n \div 10) \o <<Digits[(n % 10) + 1]>>

RECURSIVE JoinNumbers(_)
JoinNumbers(arr) ==
  IF arr = <<>> THEN <<>>
  ELSE IF Len(arr) = 1 THEN NumberText(arr[1])
  ELSE NumberText(arr[1]) \o <<",">> \o JoinNumbers(Tail(arr))

\* JSON.stringify of an array of numbers: the text, character by character
JSONstringify(arr) == <<"[">> \o JoinNumbers(arr) \o <<"]">>

\* The numbers of the text between the brackets; `cur` is the number being
\* read (-1: none), `acc` the numbers read so far.
RECURSIVE ParseNumbers(_, _, _)
ParseNumbers(text, acc, cur) ==
  IF text = <<>> THEN (IF cur < 0 THEN acc ELSE Append(acc, cur))
  ELSE IF Head(text) = "," THEN ParseNumbers(Tail(text), Append(acc, cur), -1)
  ELSE ParseNumbers(Tail(text), acc,
                    (IF cur < 0 THEN 0 ELSE 10 * cur) + DigitValue(Head(text)))

\* JSON.parse of such a text
JSONparse(text) == ParseNumbers(SubSeq(text, 2, Len(text) - 1), <<>>, -1)

NoRow == [present |-> FALSE, data |-> <<>>, cached_at |-> 0]
Null == [isNull |-> TRUE, value |-> <<>>]
Value(v) == [isNull |-> FALSE, value |-> v]

\* a mutant of Expired: an entry whose age equals the ttl counts as expired
ExpiredAtTtl(row, ttlSeconds) == now - row.cached_at >= ttlSeconds

\* cacheGet: age > ttlSeconds
Expired(row, ttlSeconds) == now - row.cached_at > ttlSeconds

\* what cacheGet(key, ttlSeconds) returns
cacheGet(key, ttlSeconds) ==
  IF ~cache[key].present THEN Null
  ELSE IF Expired(cache[key], ttlSeconds) THEN Null
  ELSE Value(JSONparse(cache[key].data))

\* a mutant of cacheAfterGet: an expired row stays in the table
cacheAfterGetKeepsRow(key, ttlSeconds) == cache

\* the table after cacheGet(key, ttlSeconds): an expired row is deleted
cacheAfterGet(key, ttlSeconds) ==
  IF cache[key].present /\ Expired(cache[key], ttlSeconds)
  THEN [cache EXCEPT ![key] = NoRow]
  ELSE cache

\* the table after cacheSet(key, data) on table c: INSERT OR REPLACE
cacheSet(c, key, data) ==
  [c EXCEPT ![key] = [present |-> TRUE, data |-> JSONstringify(data), cached_at |-> now]]

\* -------------------------------------------------- accessor data

Invs == 1 .. MaxInv

OutPending == [kind |-> "pending", status |-> 0, message |-> "none", value |-> <<>>]
OutValue(v) == [kind |-> "value", status |-> 200, message |-> "ok", value |-> v]
OutError(s, m) == [kind |-> "error", status |-> s, message |-> m, value |-> <<>>]

NoInv ==
  [kind |-> "none", id |-> 0, awaits |-> 0, got |-> OutPending,
   hit |-> FALSE, age |-> -1, epoch |-> 0, after |-> "none"]
NoProm == [state |-> "none", call |-> 0, outcome |-> OutPending]

KeyOf(i) == <<inv[i].kind, inv[i].id>>
PromPending(p) == prom[p].state \in {"awaitFetch", "awaitJson", "iifeSettled"}

\* ------------------------------------------------------- LP snapshots

TIER_ORDER == <<"IRON", "BRONZE", "SILVER", "GOLD", "PLATINUM", "EMERALD", "DIAMOND">>
RANK_ORDER == <<"IV", "III", "II", "I">>

\* Array.prototype.indexOf: the 0-based place of x in arr, -1 when absent
indexOf(arr, x) ==
  IF \E k \in 1 .. Len(arr) : arr[k] = x
  THEN (CHOOSE k \in 1 .. Len(arr) : arr[k] = x /\ \A j \in 1 .. k - 1 : arr[j] # x) - 1
  ELSE -1

LpSnapshot(puuid, tier, rank, lp, wins, losses, recorded_at) ==
  [puuid |-> puuid, tier |-> tier, rank |-> rank, lp |-> lp,
   wins |-> wins, losses |-> losses, recorded_at |-> recorded_at]

\* WHERE puuid = ?
OfPuuid(rows, puuid) == SelectSeq(rows, LAMBDA r : r.puuid = puuid)

\* getLpSnapshots(puuid, limit = 100)
limit == 100

\* getLpSnapshots(puuid): the rows of the puuid ORDER BY recorded_at ASC
\* LIMIT 100, that is, the 100 oldest. Rows are inserted with the clock of
\* their insertion, so the insertion order is the order of the index (puuid,
\* recorded_at).
getLpSnapshots(rows, puuid) ==
  IF Len(OfPuuid(rows, puuid)) <= limit THEN OfPuuid(rows, puuid)
  ELSE SubSeq(OfPuuid(rows, puuid), 1, limit)

\* a mutant of SameRecord: only the number of games is compared
SameGamesCount(last, wins, losses) == last.wins + last.losses = wins + losses

\* recordLpSnapshot: last.wins === wins && last.losses === losses
SameRecord(last, wins, losses) == last.wins = wins /\ last.losses = losses

\* a mutant of recordLpSnapshot: the newest row is replaced
recordLpSnapshotInPlace(rows, puuid, tier, rank, lp, wins, losses) ==
  IF rows = <<>>
  THEN <<LpSnapshot(puuid, tier, rank, lp, wins, losses, now)>>
  ELSE [rows EXCEPT ![Len(rows)] = LpSnapshot(puuid, tier, rank, lp, wins, losses, now)]

\* the table after recordLpSnapshot(puuid, tier, rank, lp, wins, losses):
\* nothing is written when the newest row of the puuid has these wins and
\* losses, otherwise one row is inserted
recordLpSnapshot(rows, puuid, tier, rank, lp, wins, losses) ==
  LET mine == OfPuuid(rows, puuid) IN
  IF mine # <<>> /\ SameRecord(mine[Len(mine)], wins, losses)
  THEN rows
  ELSE Append(rows, LpSnapshot(puuid, tier, rank, lp, wins, losses, now))

NoRec == [op |-> "none", row |-> LpSnapshot(0, "none", "none", 0, 0, 0, 0), before |-> <<>>,
          matches |-> <<>>, out |-> <<>>]

\* ----------------------------------------------------- attachLpChanges

RANKED_SOLO_QUEUE_ID == 420

\* a ProcessedMatch, as far as attachLpChanges reads and writes it;
\* gameCreation is in milliseconds, gameDuration in seconds
ProcessedMatch(matchId, queueId, gameCreation, gameDuration, win) ==
  [matchId |-> matchId, queueId |-> queueId, gameCreation |-> gameCreation,
   gameDuration |-> gameDuration, win |-> win, hasLpChange |-> FALSE, lpChange |-> 0]

\* m.lpChange = v
WithLpChange(m, v) == [m EXCEPT !.hasLpChange = TRUE, !.lpChange = v]

\* a mutant of flatLp: the tier is not counted
flatLpWithoutTier(tier, rank, lp) ==
  (IF indexOf(RANK_ORDER, rank) >= 0 THEN indexOf(RANK_ORDER, rank) ELSE 0) * 100 + lp

\* a mutant of flatLp: a tier spans three divisions
flatLpNarrowTier(tier, rank, lp) ==
  IF indexOf(TIER_ORDER, tier) >= 0
  THEN indexOf(TIER_ORDER, tier) * 300
         + (IF indexOf(RANK_ORDER, rank) >= 0 THEN indexOf(RANK_ORDER, rank) ELSE 0) * 100 + lp
  ELSE 2800 + lp

flatLp(tier, rank, lp) ==
  LET tierIndex == indexOf(TIER_ORDER, tier)
      rankIndex == indexOf(RANK_ORDER, rank)
  IN
  IF tierIndex >= 0
  THEN tierIndex * 400 + (IF rankIndex >= 0 THEN rankIndex ELSE 0) * 100 + lp
  ELSE 2800 + lp

\* Math.floor((m.gameCreation + m.gameDuration * 1000) / 1000)
gameEndTime(m) == (m.gameCreation + m.gameDuration * 1000) \div 1000

\* Math.round(n / d) for integers n and d # 0: the nearest integer, a half
\* going up
MathRound(n, d) ==
  IF d > 0 THEN (2 * n + d) \div (2 * d) ELSE (2 * (0 - n) + (0 - d)) \div (2 * (0 - d))

MathAbs(x) == IF x < 0 THEN 0 - x ELSE x

\* a mutant of InBracket: the end time may equal that of `before` and must be
\* earlier than that of `after`
InBracketFromBefore(t, before, after) == t >= before.recorded_at /\ t < after.recorded_at

\* gameEndTime > before.recorded_at && gameEndTime <= after.recorded_at
InBracket(t, before, after) == t > before.recorded_at /\ t <= after.recorded_at

\* the places in `ms` of the ranked matches that the pair brackets
bracketed(ms, before, after) ==
  {k \in 1 .. Len(ms) :
     /\ ms[k].queueId = RANKED_SOLO_QUEUE_ID
     /\ InBracket(gameEndTime(ms[k]), before, after)}

\* if (gamesPlayed < 1) continue
NoGamePlayed(gamesPlayed) == gamesPlayed < 1

\* the array whose elements are those of f
ArrayOf(f) == SubSeq(f, 1, Len(f))

\* one round of the loop of attachLpChanges, for the pair (before, after)
attachPair(ms, before, after) ==
  LET gamesPlayed == (after.wins + after.losses) - (before.wins + before.losses)
      totalDelta == flatLp(after.tier, after.rank, after.lp)
                      - flatLp(before.tier, before.rank, before.lp)
      B == bracketed(ms, before, after)
      wins == Cardinality({k \in B : ms[k].win})
      losses == Cardinality({k \in B : ~ms[k].win})
      denom4 == 5 * wins - 4 * losses
      evenly == [k \in 1 .. Len(ms) |->
                  IF k \in B THEN WithLpChange(ms[k], MathRound(totalDelta, Cardinality(B)))
                  ELSE ms[k]]
  IN
  IF NoGamePlayed(gamesPlayed) \/ B = {} THEN ms
  ELSE IF Cardinality(B) = 1
  THEN ArrayOf([k \in 1 .. Len(ms) |->
                  IF k \in B THEN WithLpChange(ms[k], totalDelta) ELSE ms[k]])
  ELSE IF wins = 0 \/ losses = 0 THEN ArrayOf(evenly)
  ELSE IF denom4 # 0
  THEN ArrayOf([k \in 1 .. Len(ms) |->
          IF k \notin B THEN ms[k]
          ELSE IF ms[k].win THEN WithLpChange(ms[k], MathRound(5 * totalDelta, denom4))
          ELSE WithLpChange(ms[k], MathRound(0 - MathAbs(4 * totalDelta), MathAbs(denom4)))])
  ELSE ArrayOf(evenly)

\* the rounds i = lo .. hi of the loop, in ascending order: the first half of
\* them, then the second half
RECURSIVE attachLoop(_, _, _, _)
attachLoop(ms, snapshots, lo, hi) ==
  IF Len(ms) = 0 \/ lo > hi THEN ms
  ELSE IF lo = hi THEN attachPair(ms, snapshots[lo], snapshots[lo + 1])
  ELSE attachLoop(attachLoop(ms, snapshots, lo, (lo + hi) \div 2),
                  snapshots, (lo + hi) \div 2 + 1, hi)

\* the array `matches` after attachLpChanges(puuid, matches)
attachLpChanges(rows, puuid, matches) ==
  IF Len(getLpSnapshots(rows, puuid)) < 2 THEN matches
  ELSE IF \A k \in 1 .. Len(matches) : matches[k].queueId # RANKED_SOLO_QUEUE_ID THEN matches
  ELSE attachLoop(matches, getLpSnapshots(rows, puuid), 1,
                  Len(getLpSnapshots(rows, puuid)) - 1)

\* what the league endpoint returns for a puuid: a solo-queue entry or none
NoEntry == [hasSolo |-> FALSE, tier |-> "none", rank |-> "none", lp |-> 0, wins |-> 0, losses |-> 0]
Entry(tier, rank, lp, wins, losses) ==
  [hasSolo |-> TRUE, tier |-> tier, rank |-> rank, lp |-> lp, wins |-> wins, losses |-> losses]
InitialUpstream == [p \in Puuids |-> IF p = 1 THEN Entry("GOLD", "II", 40, 10, 5) ELSE NoEntry]

RankCalls == 1 .. MaxRankCalls
NoRk == [puuid |-> 0, forceFresh |-> FALSE, state |-> "none", call |-> 0,
         hit |-> FALSE, body |-> NoEntry, got |-> <<>>]

\* ----------------------------------------------------------- Semaphore

\* a mutant of HasFreePermit: the bound is off by one
HasFreePermitOffByOne == active <= max

\* acquire(): the test that grants at once
HasFreePermit == active < max

\* a mutant of shift: the newest waiter is taken
pop(q) == [next |-> q[Len(q)], rest |-> SubSeq(q, 1, Len(q) - 1)]

\* release(): queue.shift() on a queue that is not empty
shift(q) == [next |-> Head(q), rest |-> Tail(q)]

\* Semaphore.acquire() called by c
acquire(c) ==
  IF HasFreePermit
  THEN /\ active' = active + 1
       /\ queue' = queue
       /\ pc' = [pc EXCEPT ![c] = "acquired"]
       /\ waited' = waited
  ELSE /\ active' = active
       /\ queue' = Append(queue, c)
       /\ pc' = [pc EXCEPT ![c] = "queued"]
       /\ waited' = [waited EXCEPT ![c] = TRUE]

\* a mutant of release: the permit is returned, the waiters are not looked at
releaseForgetsWaiters(c, to) ==
  /\ active' = active - 1
  /\ queue' = queue
  /\ pc' = [pc EXCEPT ![c] = to]

\* Semaphore.release() called by c, which goes on at `to`; the callback of the
\* first waiter runs inside release() and takes the permit
release(c, to) ==
  IF queue = <<>>
  THEN /\ active' = active - 1
       /\ queue' = queue
       /\ pc' = [pc EXCEPT ![c] = to]
  ELSE /\ active' = (active - 1) + 1
       /\ queue' = shift(queue).rest
       /\ pc' = [pc EXCEPT ![c] = to, ![shift(queue).next] = "acquired"]

\* ------------------------------------------------------------- actions

InitCalls ==
  /\ active = 0
  /\ queue = <<>>
  /\ max = RiotSemaphoreMax
  /\ nCalls = 0
  /\ pc = [c \in Calls |-> "idle"]
  /\ attempt = [c \in Calls |-> 1]
  /\ rateLimitRetries = [c \in Calls |-> 0]
  /\ result = [c \in Calls |-> Pending]
  /\ hist = [c \in Calls |-> <<>>]
  /\ sleeps = [c \in Calls |-> <<>>]
  /\ released = [c \in Calls |-> 0]
  /\ waited = [c \in Calls |-> FALSE]
  /\ faults = 0
  /\ callKey = [c \in Calls |-> NoKey]
  /\ cache = [k \in Keys |-> NoRow]
  /\ now = 0
  /\ ticks = 0
  /\ orig = [k \in Keys |-> <<>>]
  /\ lastOp = [op |-> "none", key |-> NoKey, ttl |-> 0, ret |-> Null,
               before |-> [k \in Keys |-> NoRow]]
  /\ nInv = 0
  /\ inv = [i \in Invs |-> NoInv]
  /\ prom = [i \in Invs |-> NoProm]
  /\ inflightMatches = [m \in MatchIds |-> 0]
  /\ upstreamCalls = [k \in Keys |-> 0]
  /\ settledProms = [k \in Keys |-> 0]
  /\ lastFetch = [k \in Keys |-> "none"]
  /\ lp_history = <<>>
  /\ lastRec = NoRec
  /\ upstream = InitialUpstream
  /\ nRk = 0
  /\ rk = [i \in RankCalls |-> NoRk]

\* A caller of the semaphore calls acquire().
SemAcquire ==
  /\ nCalls < MaxSemCalls
  /\ nCalls' = nCalls + 1
  /\ acquire(nCalls + 1)
  /\ UNCHANGED <<max, RIOT_API_KEY, attempt, rateLimitRetries, result>>
  /\ UNCHANGED <<hist, sleeps, released, faults>>
  /\ UNCHANGED <<callKey, cacheVars, accVars>>

\* A holder of a permit calls release().
SemRelease(c) ==
  /\ pc[c] = "acquired"
  /\ release(c, "returned")
  /\ released' = [released EXCEPT ![c] = @ + 1]
  /\ UNCHANGED <<max, RIOT_API_KEY, nCalls, attempt, rateLimitRetries, result>>
  /\ UNCHANGED <<hist, sleeps, waited, faults>>
  /\ UNCHANGED <<callKey, cacheVars, accVars>>

\* riotFetch(url) up to its await of acquire()
RiotFetchCall ==
  /\ nCalls < MaxFetchCalls
  /\ nCalls' = nCalls + 1
  /\ acquire(nCalls + 1)
  /\ UNCHANGED <<max, RIOT_API_KEY, attempt, rateLimitRetries, result>>
  /\ UNCHANGED <<hist, sleeps, released, faults>>
  /\ UNCHANGED <<callKey, cacheVars, accVars>>

\* a mutant of RiotFetchStart: the credential is not looked at
RiotFetchStartNoKeyCheck(c) ==
  /\ pc[c] = "acquired"
  /\ pc' = [pc EXCEPT ![c] = "fetching"]
  /\ UNCHANGED semVars
  /\ UNCHANGED <<RIOT_API_KEY, nCalls, attempt, rateLimitRetries, result>>
  /\ UNCHANGED histVars
  /\ UNCHANGED <<callKey, cacheVars, accVars>>

\* riotFetch goes on with its permit and calls riotFetchInner(url), which
\* throws without a credential and otherwise awaits fetch()
RiotFetchStart(c) ==
  /\ pc[c] = "acquired"
  /\ IF RIOT_API_KEY
     THEN /\ pc' = [pc EXCEPT ![c] = "fetching"]
          /\ result' = result
     ELSE /\ pc' = [pc EXCEPT ![c] = "settling"]
          /\ result' = [result EXCEPT ![c] = Throw(403, "RIOT_API_KEY is not configured")]
  /\ UNCHANGED semVars
  /\ UNCHANGED <<RIOT_API_KEY, nCalls, attempt, rateLimitRetries>>
  /\ UNCHANGED histVars
  /\ UNCHANGED <<callKey, cacheVars, accVars>>

\* A continuation that is ready to run (a microtask) runs before the event
\* loop takes the next timer or network event.
MicrotaskPending ==
  \/ \E d \in Calls : pc[d] \in {"acquired", "settling", "done"}
  \/ \E p \in Invs : prom[p].state = "iifeSettled"
  \/ \E i \in Invs :
        /\ inv[i].awaits # 0
        /\ inv[i].got.kind = "pending"
        /\ prom[inv[i].awaits].state = "settled"

\* a mutant of FetchResolves: the permit is given back for the time of a sleep
FetchResolvesYieldsPermit(c, o) ==
  /\ pc[c] = "fetching"
  /\ ~MicrotaskPending
  /\ LET r == riotFetchInner(attempt[c], rateLimitRetries[c], o) IN
     /\ hist' = [hist EXCEPT ![c] = Append(@, o)]
     /\ faults' = IF ~o.net /\ ResOk(o.status) THEN faults ELSE faults + 1
     /\ IF r.kind = "sleep"
        THEN /\ release(c, IF r.message = "rate" THEN "sleepRate" ELSE "sleepRetry")
             /\ sleeps' = [sleeps EXCEPT ![c] = Append(@, r.status)]
             /\ result' = result
        ELSE /\ pc' = [pc EXCEPT ![c] = "settling"]
             /\ sleeps' = sleeps
             /\ result' = [result EXCEPT ![c] = r]
             /\ UNCHANGED <<active, queue>>
  /\ UNCHANGED <<max, RIOT_API_KEY, nCalls, attempt, rateLimitRetries, released, waited>>
  /\ UNCHANGED <<callKey, cacheVars, accVars>>

\* the fetch() of c ends with outcome o
FetchResolves(c, o) ==
  /\ pc[c] = "fetching"
  /\ ~MicrotaskPending
  /\ LET r == riotFetchInner(attempt[c], rateLimitRetries[c], o) IN
     /\ hist' = [hist EXCEPT ![c] = Append(@, o)]
     /\ faults' = IF ~o.net /\ ResOk(o.status) THEN faults ELSE faults + 1
     /\ IF r.kind = "sleep"
        THEN /\ pc' = [pc EXCEPT ![c] = IF r.message = "rate" THEN "sleepRate" ELSE "sleepRetry"]
             /\ sleeps' = [sleeps EXCEPT ![c] = Append(@, r.status)]
             /\ result' = result
        ELSE /\ pc' = [pc EXCEPT ![c] = "settling"]
             /\ sleeps' = sleeps
             /\ result' = [result EXCEPT ![c] = r]
  /\ UNCHANGED semVars
  /\ UNCHANGED <<RIOT_API_KEY, nCalls, attempt, rateLimitRetries, released, waited>>
  /\ UNCHANGED <<callKey, cacheVars, accVars>>

\* a mutant of SleepResolves: a network or 5xx retry starts the count of the
\* rate-limit retries anew
SleepResolvesResetsRateLimit(c) ==
  /\ pc[c] \in {"sleepRetry", "sleepRate"}
  /\ ~MicrotaskPending
  /\ attempt' = [attempt EXCEPT ![c] = IF pc[c] = "sleepRetry" THEN @ + 1 ELSE @]
  /\ rateLimitRetries' =
       [rateLimitRetries EXCEPT ![c] = IF pc[c] = "sleepRate" THEN @ + 1 ELSE 0]
  /\ pc' = [pc EXCEPT ![c] = "fetching"]
  /\ UNCHANGED semVars
  /\ UNCHANGED <<RIOT_API_KEY, nCalls, result>>
  /\ UNCHANGED histVars
  /\ UNCHANGED <<callKey, cacheVars, accVars>>

\* the sleep() of c ends and riotFetchInner calls itself with one of its
\* counters raised; the credential is still there, so it awaits fetch() again
SleepResolves(c) ==
  /\ pc[c] \in {"sleepRetry", "sleepRate"}
  /\ ~MicrotaskPending
  /\ attempt' = [attempt EXCEPT ![c] = IF pc[c] = "sleepRetry" THEN @ + 1 ELSE @]
  /\ rateLimitRetries' =
       [rateLimitRetries EXCEPT ![c] = IF pc[c] = "sleepRate" THEN @ + 1 ELSE @]
  /\ pc' = [pc EXCEPT ![c] = "fetching"]
  /\ UNCHANGED semVars
  /\ UNCHANGED <<RIOT_API_KEY, nCalls, result>>
  /\ UNCHANGED histVars
  /\ UNCHANGED <<callKey, cacheVars, accVars>>

\* a mutant of RiotFetchSettle: release() sits at the end of the try block,
\* so a throw skips it
RiotFetchSettleNoFinally(c) ==
  /\ pc[c] = "settling"
  /\ IF result[c].kind = "throw"
     THEN /\ pc' = [pc EXCEPT ![c] = "done"]
          /\ UNCHANGED <<active, queue, released>>
     ELSE /\ release(c, "done")
          /\ released' = [released EXCEPT ![c] = @ + 1]
  /\ UNCHANGED <<max, RIOT_API_KEY, nCalls, attempt, rateLimitRetries, result>>
  /\ UNCHANGED <<hist, sleeps, waited, faults>>
  /\ UNCHANGED <<callKey, cacheVars, accVars>>

\* riotFetchInner has settled: riotFetch logs, and its finally releases
RiotFetchSettle(c) ==
  /\ pc[c] = "settling"
  /\ release(c, "done")
  /\ released' = [released EXCEPT ![c] = @ + 1]
  /\ UNCHANGED <<max, RIOT_API_KEY, nCalls, attempt, rateLimitRetries, result>>
  /\ UNCHANGED <<hist, sleeps, waited, faults>>
  /\ UNCHANGED <<callKey, cacheVars, accVars>>

\* The caller that awaits riotFetch(url) receives what it returned or threw;
\* the frames of the call are gone.
ForgetCall(c) ==
  /\ pc' = [pc EXCEPT ![c] = "returned"]
  /\ attempt' = [attempt EXCEPT ![c] = 1]
  /\ rateLimitRetries' = [rateLimitRetries EXCEPT ![c] = 0]
  /\ result' = [result EXCEPT ![c] = Pending]
  /\ hist' = [hist EXCEPT ![c] = <<>>]
  /\ sleeps' = [sleeps EXCEPT ![c] = <<>>]
  /\ waited' = [waited EXCEPT ![c] = FALSE]
  /\ callKey' = [callKey EXCEPT ![c] = NoKey]

\* a caller outside the model takes the result of riotFetch
RiotFetchReturns(c) ==
  /\ pc[c] = "done"
  /\ callKey[c] = NoKey
  /\ ForgetCall(c)
  /\ UNCHANGED semVars
  /\ UNCHANGED <<RIOT_API_KEY, nCalls, released, faults>>
  /\ UNCHANGED <<cacheVars, accVars>>

\* ------------------------------------------------- the cache, directly

NoOp == [op |-> "none", key |-> NoKey, ttl |-> 0, ret |-> Null,
         before |-> [k \in Keys |-> NoRow]]

Ttls == {MATCH_LIST_TTL, ACCOUNT_TTL, MATCH_DETAIL_TTL}
TickSteps == {10, MATCH_LIST_TTL, MATCH_DETAIL_TTL, MATCH_DETAIL_TTL + ACCOUNT_TTL}
CacheKeys == {<<"matches", 1>>, <<"match", 1>>}

callLayer == <<active, queue, max, RIOT_API_KEY, nCalls, pc, attempt,
               rateLimitRetries, result, hist, sleeps, released, waited,
               faults, callKey>>

\* a caller calls cacheSet(key, data)
CacheSetOp(key, data) ==
  /\ cache' = cacheSet(cache, key, data)
  /\ orig' = [orig EXCEPT ![key] = data]
  /\ lastOp' = [NoOp EXCEPT !.op = "set", !.key = key]
  /\ UNCHANGED <<now, ticks>>
  /\ UNCHANGED <<callLayer, accVars>>

\* a caller calls cacheGet(key, ttlSeconds)
CacheGetOp(key, ttlSeconds) ==
  /\ cache' = cacheAfterGet(key, ttlSeconds)
  /\ lastOp' = [op |-> "get", key |-> key, ttl |-> ttlSeconds,
                ret |-> cacheGet(key, ttlSeconds), before |-> cache]
  /\ UNCHANGED <<now, ticks, orig>>
  /\ UNCHANGED <<callLayer, accVars>>

\* time passes, between two events of the loop
Tick(d) ==
  /\ ticks < MaxTicks
  /\ ~MicrotaskPending
  /\ now' = now + d
  /\ ticks' = ticks + 1
  /\ lastOp' = NoOp
  /\ UNCHANGED <<cache, orig>>
  /\ UNCHANGED <<callLayer, accVars>>

\* --------------------------------------------- the snapshots, directly

Standings == {<<"GOLD", "II", 40>>, <<"PLATINUM", "IV", 5>>}
Records == {<<10, 5>>, <<11, 5>>, <<10, 6>>}
SnapTickSteps == {1}

\* a caller calls recordLpSnapshot(puuid, tier, rank, lp, wins, losses)
RecordOp(puuid, s, wl) ==
  /\ Len(recordLpSnapshot(lp_history, puuid, s[1], s[2], s[3], wl[1], wl[2])) <= MaxSnapshots
  /\ lp_history' = recordLpSnapshot(lp_history, puuid, s[1], s[2], s[3], wl[1], wl[2])
  /\ lastRec' = [op |-> "record",
                 row |-> LpSnapshot(puuid, s[1], s[2], s[3], wl[1], wl[2], now),
                 before |-> lp_history, matches |-> <<>>, out |-> <<>>]
  /\ UNCHANGED <<upstream, nRk, rk>>
  /\ UNCHANGED <<callLayer, cacheVars, dedupVars>>

\* ------------------------------------------- attachLpChanges, directly

\* the solo-queue entries that upstream returns over a season
LpEntries ==
  {Entry("GOLD", "II", 40, 10, 5), Entry("GOLD", "II", 62, 11, 5),
   Entry("PLATINUM", "IV", 12, 12, 5), Entry("GOLD", "II", 44, 11, 6)}

\* matches of the player: their ends are at 1500, 1000, 1700, 1500, 500 and
\* 2000 seconds; the fourth is no ranked-solo match
Candidates ==
  <<ProcessedMatch(1, RANKED_SOLO_QUEUE_ID, 500400, 1000, TRUE),
    ProcessedMatch(2, RANKED_SOLO_QUEUE_ID, 999, 1000, FALSE),
    ProcessedMatch(3, RANKED_SOLO_QUEUE_ID, 700000, 1000, FALSE),
    ProcessedMatch(4, 450, 500400, 1000, TRUE),
    ProcessedMatch(5, RANKED_SOLO_QUEUE_ID, 0, 500, TRUE),
    ProcessedMatch(6, RANKED_SOLO_QUEUE_ID, 500, 2000, TRUE)>>

\* the result sets: none, one of the matches, or the first with another
ResultSets ==
  {<<>>} \cup {<<Candidates[a]>> : a \in 1 .. Len(Candidates)}
    \cup {<<Candidates[a], Candidates[b]>> : a \in 1 .. 1, b \in 2 .. Len(Candidates)}

LpTickSteps == {1000}

\* getRankedByPuuid has fetched the entry e of puuid 1 and records it
SnapshotTaken(e) ==
  /\ Len(recordLpSnapshot(lp_history, 1, e.tier, e.rank, e.lp, e.wins, e.losses)) <= MaxLpSnapshots
  /\ lp_history' = recordLpSnapshot(lp_history, 1, e.tier, e.rank, e.lp, e.wins, e.losses)
  /\ lastRec' = NoRec
  /\ UNCHANGED <<upstream, nRk, rk>>
  /\ UNCHANGED <<callLayer, cacheVars, dedupVars>>

\* time passes between two requests
Elapse(d) ==
  /\ ticks < MaxLpTicks
  /\ now' = now + d
  /\ ticks' = ticks + 1
  /\ lastRec' = NoRec
  /\ UNCHANGED <<cache, orig, lastOp>>
  /\ UNCHANGED <<lp_history, upstream, nRk, rk>>
  /\ UNCHANGED <<callLayer, dedupVars>>

\* a caller calls attachLpChanges(puuid, matches)
AttachOp(puuid, matches) ==
  /\ lastRec' = [op |-> "attach", row |-> [NoRec.row EXCEPT !.puuid = puuid],
                 before |-> lp_history, matches |-> matches,
                 out |-> attachLpChanges(lp_history, puuid, matches)]
  /\ UNCHANGED <<lp_history, upstream, nRk, rk>>
  /\ UNCHANGED <<callLayer, cacheVars, dedupVars>>

\* -------------------------------------- attachLpChanges, a long history

\* a lookup of puuid 1 records the standing; then the player wins the next
\* ranked game, which ends 500 seconds later, and 1000 seconds pass. The
\* k-th snapshot is taken at 1000 * (k - 1), after k - 1 games.
SeasonSnapshot ==
  /\ Len(lp_history) < MaxSeasonSnapshots
  /\ lp_history' = recordLpSnapshot(lp_history, 1, "GOLD", "II", Len(lp_history),
                                    10 + Len(lp_history), 5)
  /\ now' = now + 1000
  /\ ticks' = ticks + 1
  /\ lastRec' = NoRec
  /\ UNCHANGED <<cache, orig, lastOp>>
  /\ UNCHANGED <<upstream, nRk, rk>>
  /\ UNCHANGED <<callLayer, dedupVars>>

\* the first game of the season and the last one before the newest snapshot
FirstGame == ProcessedMatch(1, RANKED_SOLO_QUEUE_ID, 400000, 100, TRUE)
LastGame ==
  ProcessedMatch(Len(lp_history) - 1, RANKED_SOLO_QUEUE_ID, (now - 1600) * 1000, 100, TRUE)

\* ------------------------------------------------ the batch aggregations

\* What upstream holds for the matches, as the number arrays that the cache
\* stores: metadata.matchId, info.queueId, info.gameCreation (ms),
\* info.gameDuration (s), then puuid and win (1 or 0) of every participant.
\* Player 1 played both matches; player 2 played the first only.
MatchDetails ==
  [m \in MatchIds |->
     IF m = 1 THEN <<1, RANKED_SOLO_QUEUE_ID, 400000, 100, 1, 1, 2, 0>>
     ELSE <<2, RANKED_SOLO_QUEUE_ID, 1400000, 100, 1, 0>>]

\* the start of the season; the model counts its times from there
SEASON_START_MS == 0

MATCHES_PER_PAGE == 10

\* match.info.participants.find((p) => p.puuid === puuid): the place of the
\* first participant with that puuid, 0 when there is none
participantOf(match, puuid) ==
  LET at == {k \in 1 .. (Len(match) - 4) \div 2 : match[3 + 2 * k] = puuid}
  IN IF at = {} THEN 0 ELSE CHOOSE k \in at : \A j \in at : k <= j

\* processMatch(match, puuid): a new record built from the fields of the
\* payload, or null, here <<>>, when the puuid did not play the match
processMatch(match, puuid) ==
  IF participantOf(match, puuid) = 0 THEN <<>>
  ELSE <<ProcessedMatch(match[1], match[2], match[3], match[4],
                        match[4 + 2 * participantOf(match, puuid)] = 1)>>

MatchKey(matchId) == <<"match", matchId>>

\* getMatchDetail(matchId) finds the payload in the cache
CacheHit(matchId) == ~cacheGet(MatchKey(matchId), MATCH_DETAIL_TTL).isNull

\* what getMatchDetail(matchId) resolves to when it does not throw: the
\* parsed copy of the cached payload, or the payload that upstream sent
matchDetail(matchId) ==
  IF CacheHit(matchId) THEN cacheGet(MatchKey(matchId), MATCH_DETAIL_TTL).value
  ELSE MatchDetails[matchId]

\* the ids of a batch as a set
IdsOf(ids) == {ids[k] : k \in 1 .. Len(ids)}

\* The table after the getMatchDetail calls of a batch; `fails` are the ids
\* whose fetch throws. A hit leaves the row alone, a fetch that succeeds
\* stores the payload, an expired row is deleted by the read.
cacheAfterDetails(ids, fails) ==
  [k \in Keys |->
     IF k[1] = "match" /\ k[2] \in IdsOf(ids) /\ ~CacheHit(k[2])
     THEN IF k[2] \in fails THEN cacheAfterGet(k, MATCH_DETAIL_TTL)[k]
          ELSE cacheSet(cache, k, MatchDetails[k[2]])[k]
     ELSE cache[k]]

\* the values last given to cacheSet, after the batch
origAfterDetails(ids, fails) ==
  [k \in Keys |->
     IF k[1] = "match" /\ k[2] \in IdsOf(ids) /\ ~CacheHit(k[2]) /\ k[2] \notin fails
     THEN MatchDetails[k[2]] ELSE orig[k]]

\* results.filter((m) => m !== null) over getProcessedMatch(id, puuid), or
\* matchDetails.filter(...).map(processMatch).filter(...): the processed
\* matches of the ids whose detail arrived, in the order of the ids
RECURSIVE processed(_, _, _)
processed(ids, fails, puuid) ==
  IF ids = <<>> THEN <<>>
  ELSE (IF Head(ids) \in fails THEN <<>> ELSE processMatch(matchDetail(Head(ids)), puuid))
         \o processed(Tail(ids), fails, puuid)

\* failedCount after the batch
failedCount(ids, fails) == Cardinality(IdsOf(ids) \cap fails)

\* error, or warning: undefined, `Loaded X of N matches (F failed)`, or
\* "All matches failed to load"
NoError == [kind |-> "none", loaded |-> 0, of |-> 0, failed |-> 0]
batchError(failed, loaded, of) ==
  IF failed > 0 /\ loaded > 0
  THEN [kind |-> "partial", loaded |-> loaded, of |-> of, failed |-> failed]
  ELSE IF failed > 0 /\ loaded = 0
  THEN [kind |-> "all", loaded |-> 0, of |-> 0, failed |-> 0]
  ELSE NoError

\* .filter((m) => m.gameCreation >= SEASON_START_MS)
InSeason(ms) == SelectSeq(ms, LAMBDA m : m.gameCreation >= SEASON_START_MS)

\* the batches of ids that the id lists give, and the fetches that may throw
Batches == {<<1>>, <<2>>, <<1, 2>>}
AggregateOps == {"getMemberMatchHistory", "getSeasonMatches", "loader"}

\* history: the (puuid, matchId) pairs that got an lpChange so far
GivenSoFar == IF lastRec.op \in AggregateOps THEN lastRec.given ELSE {}
Given(puuid, out) ==
  {<<puuid, out[k].matchId>> : k \in {j \in 1 .. Len(out) : out[j].hasLpChange}}

\* a mutant of Aggregated: the matches with their lpChange are written back
\* over the cached payloads
AggregatedWritingBack(op, puuid, ids, fails, matches, out, error, hasMore) ==
  /\ fails \subseteq {m \in IdsOf(ids) : ~CacheHit(m)}
  /\ cache' =
       [k \in Keys |->
          IF \E j \in 1 .. Len(out) : k = MatchKey(out[j].matchId) /\ out[j].hasLpChange
          THEN cacheSet(cache, k,
                        Append(matchDetail(k[2]),
                               MathAbs(out[CHOOSE j \in 1 .. Len(out) :
                                             k = MatchKey(out[j].matchId)].lpChange)))[k]
          ELSE cacheAfterDetails(ids, fails)[k]]
  /\ orig' = origAfterDetails(ids, fails)
  /\ lastRec' = [op |-> op, row |-> [NoRec.row EXCEPT !.puuid = puuid],
                 before |-> lp_history, matches |-> matches, out |-> out,
                 ids |-> ids, failed |-> failedCount(ids, fails), error |-> error,
                 hasMore |-> hasMore, rejected |-> FALSE,
                 given |-> GivenSoFar \cup Given(puuid, out)]
  /\ UNCHANGED <<now, ticks, lastOp>>
  /\ UNCHANGED <<lp_history, upstream, nRk, rk>>
  /\ UNCHANGED <<callLayer, dedupVars>>

\* An aggregation over the batch `ids` for `puuid` runs to its end and
\* returns `out` with `error`: the details are read or fetched, processed for
\* the puuid, and the result is handed over. The cache changes by the
\* getMatchDetail calls only.
Aggregated(op, puuid, ids, fails, matches, out, error, hasMore) ==
  /\ fails \subseteq {m \in IdsOf(ids) : ~CacheHit(m)}
  /\ cache' = cacheAfterDetails(ids, fails)
  /\ orig' = origAfterDetails(ids, fails)
  /\ lastRec' = [op |-> op, row |-> [NoRec.row EXCEPT !.puuid = puuid],
                 before |-> lp_history, matches |-> matches, out |-> out,
                 ids |-> ids, failed |-> failedCount(ids, fails), error |-> error,
                 hasMore |-> hasMore, rejected |-> FALSE,
                 given |-> GivenSoFar \cup Given(puuid, out)]
  /\ UNCHANGED <<now, ticks, lastOp>>
  /\ UNCHANGED <<lp_history, upstream, nRk, rk>>
  /\ UNCHANGED <<callLayer, dedupVars>>

\* a lookup of puuid 1 records the standing; then the player wins the next
\* game and time passes
BatchSnapshot ==
  /\ Len(lp_history) < MaxBatchSnapshots
  /\ lp_history' = recordLpSnapshot(lp_history, 1, "GOLD", "II", 20 * Len(lp_history),
                                    10 + Len(lp_history), 5)
  /\ now' = now + 1000
  /\ ticks' = ticks + 1
  /\ lastRec' = NoRec
  /\ UNCHANGED <<cache, orig, lastOp>>
  /\ UNCHANGED <<upstream, nRk, rk>>
  /\ UNCHANGED <<callLayer, dedupVars>>

\* getMemberMatchHistory(member) from its batch on: getMatchDetail per id,
\* processMatch, attachLpChanges, the error text
MemberMatchHistory(puuid, ids, fails) ==
  Aggregated("getMemberMatchHistory", puuid, ids, fails,
             processed(ids, fails, puuid),
             attachLpChanges(lp_history, puuid, processed(ids, fails, puuid)),
             batchError(failedCount(ids, fails), Len(processed(ids, fails, puuid)), Len(ids)),
             FALSE)

\* getMemberMatchHistory(member) when the account lookup, the id list or the
\* ranked lookup throws: the catch returns no matches and the message
MemberMatchHistoryCaught(puuid) ==
  /\ lastRec' = [op |-> "getMemberMatchHistory", row |-> [NoRec.row EXCEPT !.puuid = puuid],
                 before |-> lp_history, matches |-> <<>>, out |-> <<>>,
                 ids |-> <<>>, failed |-> 0,
                 error |-> [NoError EXCEPT !.kind = "message"],
                 hasMore |-> FALSE, rejected |-> FALSE, given |-> GivenSoFar]
  /\ UNCHANGED <<lp_history, upstream, nRk, rk>>
  /\ UNCHANGED <<callLayer, cacheVars, dedupVars>>

\* getSeasonMatches(puuid) from its batch on: getProcessedMatch per id, the
\* season filter; the array is all that is returned
SeasonMatches(puuid, ids, fails) ==
  Aggregated("getSeasonMatches", puuid, ids, fails,
             processed(ids, fails, puuid), InSeason(processed(ids, fails, puuid)),
             NoError, FALSE)

\* the loader of the player page from its batch on: getProcessedMatch per
\* id, attachLpChanges, the warning, hasMore
PlayerLoader(puuid, ids, fails) ==
  Aggregated("loader", puuid, ids, fails,
             processed(ids, fails, puuid),
             attachLpChanges(lp_history, puuid, processed(ids, fails, puuid)),
             batchError(failedCount(ids, fails), Len(processed(ids, fails, puuid)), Len(ids)),
             Len(ids) = MATCHES_PER_PAGE)

\* ------------------------------------------------------ flatLp, directly

\* the standings of the ladder: the divisioned tiers with their divisions, the
\* apex tiers (whose rank is always I), league points at both ends and inside
ApexTiers == {"MASTER", "GRANDMASTER", "CHALLENGER"}
LeaguePoints == {0, 1, 50, 98, 99}
LadderStandings ==
  {LpSnapshot(1, TIER_ORDER[t], RANK_ORDER[r], lp, 0, 0, 0) :
     t \in 1 .. Len(TIER_ORDER), r \in 1 .. Len(RANK_ORDER), lp \in LeaguePoints}
  \cup {LpSnapshot(1, t, "I", lp, 0, 0, 0) : t \in ApexTiers, lp \in LeaguePoints}

\* a caller flattens two snapshots, as attachLpChanges does with `before` and
\* `after`
FlatLpOp(before, after) ==
  /\ lastRec.op = "none"
  /\ lastRec' = [op |-> "flatLp", row |-> NoRec.row,
                 before |-> <<before, after>>, matches |-> <<>>,
                 out |-> <<flatLp(before.tier, before.rank, before.lp),
                           flatLp(after.tier, after.rank, after.lp)>>]
  /\ UNCHANGED <<lp_history, upstream, nRk, rk>>
  /\ UNCHANGED <<callLayer, cacheVars, dedupVars>>

\* ------------------------------------------------------- the accessors

\* a body that is no JSON text: res.json() rejects
BadBody == <<-1>>

\* riotFetch(url) for the resource of `key`, up to its await of acquire()
StartRiotFetch(key) ==
  /\ nCalls' = nCalls + 1
  /\ acquire(nCalls + 1)
  /\ callKey' = [callKey EXCEPT ![nCalls + 1] = key]
  /\ upstreamCalls' = [upstreamCalls EXCEPT ![key] = @ + 1]
  /\ UNCHANGED <<max, RIOT_API_KEY, attempt, rateLimitRetries, result>>
  /\ UNCHANGED <<hist, sleeps, released, faults>>

\* what an accessor call knows when it has read the cache
Asked(kind, id) ==
  [kind |-> kind, id |-> id, awaits |-> 0, got |-> OutPending,
   hit |-> ~cacheGet(<<kind, id>>, TtlOf(kind)).isNull,
   age |-> IF cache[<<kind, id>>].present
           THEN now - cache[<<kind, id>>].cached_at ELSE -1,
   epoch |-> settledProms[<<kind, id>>],
   after |-> lastFetch[<<kind, id>>]]

\* getAccountByRiotId, getSummonerByPuuid, getMatchIds, up to the first
\* await: a cached value is returned, otherwise riotFetch is called
GetPlain(kind, id) ==
  LET i == nInv + 1
      key == <<kind, id>>
      cached == cacheGet(key, TtlOf(kind))
  IN
  /\ nInv < MaxInv
  /\ nInv' = i
  /\ cache' = cacheAfterGet(key, TtlOf(kind))
  /\ IF ~cached.isNull
     THEN /\ inv' = [inv EXCEPT ![i] = [Asked(kind, id) EXCEPT !.got = OutValue(cached.value)]]
          /\ UNCHANGED <<callLayer, prom, upstreamCalls, lastFetch>>
     ELSE /\ StartRiotFetch(key)
          /\ inv' = [inv EXCEPT ![i] = [Asked(kind, id) EXCEPT !.awaits = i]]
          /\ prom' = [prom EXCEPT ![i] =
                        [state |-> "awaitFetch", call |-> nCalls + 1, outcome |-> OutPending]]
          /\ lastFetch' = [lastFetch EXCEPT ![key] = "pending"]
  /\ UNCHANGED <<now, ticks, orig, lastOp, inflightMatches, settledProms>>
  /\ UNCHANGED rankVars

\* a mutant of inflightGet: the map is never consulted
inflightGetNothing(matchId) == 0

\* inflightMatches.get(matchId)
inflightGet(matchId) == inflightMatches[matchId]

\* a mutant of inflightSet: the promise is not registered
inflightSetNothing(matchId, p) == inflightMatches

\* inflightMatches.set(matchId, promise)
inflightSet(matchId, p) == [inflightMatches EXCEPT ![matchId] = p]

\* a mutant of inflightDelete: the registration stays
inflightDeleteNothing(matchId) == inflightMatches

\* inflightMatches.delete(matchId)
inflightDelete(matchId) == [inflightMatches EXCEPT ![matchId] = 0]

\* getMatchDetail(matchId): a cached value is returned; otherwise the pending
\* promise of the match is returned if there is one; otherwise a promise is
\* started, which calls riotFetch, and is registered
GetMatchDetail(matchId) ==
  LET i == nInv + 1
      key == <<"match", matchId>>
      cached == cacheGet(key, MATCH_DETAIL_TTL)
      inflight == inflightGet(matchId)
  IN
  /\ nInv < MaxInv
  /\ nInv' = i
  /\ cache' = cacheAfterGet(key, MATCH_DETAIL_TTL)
  /\ IF ~cached.isNull
     THEN /\ inv' = [inv EXCEPT ![i] = [Asked("match", matchId) EXCEPT !.got = OutValue(cached.value)]]
          /\ UNCHANGED <<callLayer, prom, upstreamCalls, lastFetch, inflightMatches>>
     ELSE IF inflight # 0
     THEN /\ inv' = [inv EXCEPT ![i] = [Asked("match", matchId) EXCEPT !.awaits = inflight]]
          /\ UNCHANGED <<callLayer, prom, upstreamCalls, lastFetch, inflightMatches>>
     ELSE /\ StartRiotFetch(key)
          /\ inv' = [inv EXCEPT ![i] = [Asked("match", matchId) EXCEPT !.awaits = i]]
          /\ prom' = [prom EXCEPT ![i] =
                        [state |-> "awaitFetch", call |-> nCalls + 1, outcome |-> OutPending]]
          /\ inflightMatches' = inflightSet(matchId, i)
          /\ lastFetch' = [lastFetch EXCEPT ![key] = "pending"]
  /\ UNCHANGED <<now, ticks, orig, lastOp, settledProms>>
  /\ UNCHANGED rankVars

\* The body of the accessor has returned or thrown `out`. The promise of a
\* plain accessor is settled; that of getMatchDetail still has its
\* .finally() callback to run.
BodySettles(p, out) ==
  IF inv[p].kind = "match"
  THEN /\ prom' = [prom EXCEPT ![p].state = "iifeSettled", ![p].outcome = out]
       /\ UNCHANGED <<settledProms, lastFetch>>
  ELSE /\ prom' = [prom EXCEPT ![p].state = "settled", ![p].outcome = out]
       /\ settledProms' = [settledProms EXCEPT ![KeyOf(p)] = @ + 1]
       /\ lastFetch' = [lastFetch EXCEPT ![KeyOf(p)] =
                          IF out.kind = "value" THEN "ok" ELSE "fail"]

\* the accessor goes on after `await riotFetch(url)`: a throw passes through,
\* a response is read with res.json()
AccessorResume(p) ==
  /\ prom[p].state = "awaitFetch"
  /\ pc[prom[p].call] = "done"
  /\ ForgetCall(prom[p].call)
  /\ IF result[prom[p].call].kind = "throw"
     THEN BodySettles(p, OutError(result[prom[p].call].status,
                                  result[prom[p].call].message))
     ELSE /\ prom' = [prom EXCEPT ![p].state = "awaitJson"]
          /\ UNCHANGED <<settledProms, lastFetch>>
  /\ UNCHANGED semVars
  /\ UNCHANGED <<RIOT_API_KEY, nCalls, released, faults>>
  /\ UNCHANGED cacheVars
  /\ UNCHANGED <<nInv, inv, inflightMatches, upstreamCalls>>
  /\ UNCHANGED rankVars

\* a mutant of JsonResolves: a body that does not parse is cached as empty
JsonResolvesCachesUnparsed(p, body) ==
  /\ prom[p].state = "awaitJson"
  /\ ~MicrotaskPending
  /\ IF body = BadBody
     THEN /\ BodySettles(p, OutError(-1, "SyntaxError"))
          /\ cache' = cacheSet(cache, KeyOf(p), <<>>)
          /\ orig' = orig
     ELSE /\ BodySettles(p, OutValue(body))
          /\ cache' = cacheSet(cache, KeyOf(p), body)
          /\ orig' = [orig EXCEPT ![KeyOf(p)] = body]
  /\ UNCHANGED <<now, ticks, lastOp>>
  /\ UNCHANGED callLayer
  /\ UNCHANGED <<nInv, inv, inflightMatches, upstreamCalls>>
  /\ UNCHANGED rankVars

\* res.json() ends: the decoded body is written to the cache and returned;
\* a body that does not parse makes the accessor throw
JsonResolves(p, body) ==
  /\ prom[p].state = "awaitJson"
  /\ ~MicrotaskPending
  /\ IF body = BadBody
     THEN /\ BodySettles(p, OutError(-1, "SyntaxError"))
          /\ UNCHANGED <<cache, orig>>
     ELSE /\ BodySettles(p, OutValue(body))
          /\ cache' = cacheSet(cache, KeyOf(p), body)
          /\ orig' = [orig EXCEPT ![KeyOf(p)] = body]
  /\ UNCHANGED <<now, ticks, lastOp>>
  /\ UNCHANGED callLayer
  /\ UNCHANGED <<nInv, inv, inflightMatches, upstreamCalls>>
  /\ UNCHANGED rankVars

\* the .finally() callback of getMatchDetail: inflightMatches.delete(matchId)
FinallyCallback(p) ==
  /\ prom[p].state = "iifeSettled"
  /\ inflightMatches' = inflightDelete(inv[p].id)
  /\ prom' = [prom EXCEPT ![p].state = "settled"]
  /\ settledProms' = [settledProms EXCEPT ![KeyOf(p)] = @ + 1]
  /\ lastFetch' = [lastFetch EXCEPT ![KeyOf(p)] =
                     IF prom[p].outcome.kind = "value" THEN "ok" ELSE "fail"]
  /\ UNCHANGED <<callLayer, cacheVars>>
  /\ UNCHANGED <<nInv, inv, upstreamCalls>>
  /\ UNCHANGED rankVars

\* the caller that awaits the promise receives what it settled with
Deliver(i) ==
  /\ inv[i].awaits # 0
  /\ inv[i].got.kind = "pending"
  /\ prom[inv[i].awaits].state = "settled"
  /\ inv' = [inv EXCEPT ![i].got = prom[inv[i].awaits].outcome]
  /\ UNCHANGED <<callLayer, cacheVars>>
  /\ UNCHANGED <<nInv, prom, inflightMatches, upstreamCalls, settledProms, lastFetch>>
  /\ UNCHANGED rankVars

\* --------------------------------------------------- getRankedByPuuid

\* what is cached and returned for an entry: { hasRank, data } as numbers
RankedBody(e) ==
  IF e.hasSolo
  THEN <<1, indexOf(TIER_ORDER, e.tier) + 1, indexOf(RANK_ORDER, e.rank) + 1, e.lp, e.wins, e.losses>>
  ELSE <<0>>

\* getRankedByPuuid(puuid, forceFresh) up to its first await: unless a fresh
\* value is forced, a cached value is returned; otherwise riotFetch is called
GetRanked(puuid, forceFresh) ==
  LET i == nRk + 1
      key == <<"ranked", puuid>>
      cached == IF forceFresh THEN Null ELSE cacheGet(key, RANKED_TTL)
  IN
  /\ nRk < MaxRankCalls
  /\ nRk' = i
  /\ cache' = IF forceFresh THEN cache ELSE cacheAfterGet(key, RANKED_TTL)
  /\ IF ~cached.isNull
     THEN /\ rk' = [rk EXCEPT ![i] =
                     [NoRk EXCEPT !.puuid = puuid, !.forceFresh = forceFresh,
                                  !.state = "returned", !.hit = TRUE, !.got = cached.value]]
          /\ UNCHANGED <<callLayer, upstreamCalls>>
     ELSE /\ StartRiotFetch(key)
          /\ rk' = [rk EXCEPT ![i] =
                     [NoRk EXCEPT !.puuid = puuid, !.forceFresh = forceFresh,
                                  !.state = "awaitFetch", !.call = nCalls + 1]]
  /\ UNCHANGED <<now, ticks, orig, lastOp>>
  /\ UNCHANGED <<nInv, inv, prom, inflightMatches, settledProms, lastFetch>>
  /\ UNCHANGED <<lp_history, lastRec, upstream>>

\* a mutant of RankedResume: a failed fetch is cached as "no rank"
RankedResumeCachesFailure(i) ==
  /\ rk[i].state = "awaitFetch"
  /\ pc[rk[i].call] = "done"
  /\ ForgetCall(rk[i].call)
  /\ IF result[rk[i].call].kind = "throw"
     THEN /\ rk' = [rk EXCEPT ![i].state = "returned", ![i].got = <<0>>]
          /\ cache' = cacheSet(cache, <<"ranked", rk[i].puuid>>, <<0>>)
     ELSE /\ rk' = [rk EXCEPT ![i].state = "awaitJson", ![i].body = upstream[rk[i].puuid]]
          /\ cache' = cache
  /\ UNCHANGED semVars
  /\ UNCHANGED <<RIOT_API_KEY, nCalls, released, faults>>
  /\ UNCHANGED <<now, ticks, orig, lastOp, dedupVars>>
  /\ UNCHANGED <<lp_history, lastRec, upstream, nRk>>

\* getRankedByPuuid goes on after `await riotFetch(url)`: a throw is caught
\* and null is returned; a response carries the entries that upstream holds
\* when it arrives, and is read with res.json()
RankedResume(i) ==
  /\ rk[i].state = "awaitFetch"
  /\ pc[rk[i].call] = "done"
  /\ ForgetCall(rk[i].call)
  /\ IF result[rk[i].call].kind = "throw"
     THEN rk' = [rk EXCEPT ![i].state = "returned", ![i].got = <<0>>]
     ELSE rk' = [rk EXCEPT ![i].state = "awaitJson", ![i].body = upstream[rk[i].puuid]]
  /\ UNCHANGED semVars
  /\ UNCHANGED <<RIOT_API_KEY, nCalls, released, faults>>
  /\ UNCHANGED <<cacheVars, dedupVars>>
  /\ UNCHANGED <<lp_history, lastRec, upstream, nRk>>

\* res.json() ends. A body that does not parse: the throw is caught, null is
\* returned. No solo-queue entry: { hasRank: false } is cached, null is
\* returned. Otherwise the entry is cached, recordLpSnapshot is called and
\* the entry is returned.
RankedJson(i, parses) ==
  LET e == rk[i].body
      key == <<"ranked", rk[i].puuid>>
  IN
  /\ rk[i].state = "awaitJson"
  /\ ~MicrotaskPending
  /\ IF ~parses
     THEN /\ rk' = [rk EXCEPT ![i].state = "returned", ![i].got = <<0>>]
          /\ UNCHANGED <<cache, orig, lp_history>>
     ELSE /\ rk' = [rk EXCEPT ![i].state = "returned", ![i].got = RankedBody(e)]
          /\ cache' = cacheSet(cache, key, RankedBody(e))
          /\ orig' = [orig EXCEPT ![key] = RankedBody(e)]
          /\ lp_history' =
               IF e.hasSolo
               THEN recordLpSnapshot(lp_history, rk[i].puuid, e.tier, e.rank, e.lp, e.wins, e.losses)
               ELSE lp_history
  /\ UNCHANGED <<now, ticks, lastOp>>
  /\ UNCHANGED <<callLayer, dedupVars>>
  /\ UNCHANGED <<lastRec, upstream, nRk>>

\* the player of puuid wins a ranked game: upstream counts it
UpstreamPlay(puuid) ==
  /\ upstream[puuid].hasSolo
  /\ ~MicrotaskPending
  /\ upstream[puuid].wins + upstream[puuid].losses
       < InitialUpstream[puuid].wins + InitialUpstream[puuid].losses + MaxGames
  /\ upstream' = [upstream EXCEPT ![puuid] = [@ EXCEPT !.wins = @ + 1, !.lp = @ + 22]]
  /\ UNCHANGED <<callLayer, cacheVars, dedupVars>>
  /\ UNCHANGED <<lp_history, lastRec, nRk, rk>>

\* ------------------------------------------------------ specifications

\* The semaphore alone, under callers that release what they hold.
SemInit == InitCalls /\ RIOT_API_KEY = TRUE
SemNext == SemAcquire \/ \E c \in Calls : SemRelease(c)
SemSpec == SemInit /\ [][SemNext]_vars

\* Concurrent riotFetch calls.
FetchInit == InitCalls /\ RIOT_API_KEY \in BOOLEAN
FetchNext ==
  \/ RiotFetchCall
  \/ \E c \in Calls : RiotFetchStart(c)
  \/ \E c \in Calls : \E o \in FewOutcomes :
        /\ (o.net \/ ~ResOk(o.status)) => faults < MaxFaults
        /\ FetchResolves(c, o)
  \/ \E c \in Calls : SleepResolves(c)
  \/ \E c \in Calls : RiotFetchSettle(c)
  \/ \E c \in Calls : RiotFetchReturns(c)
FetchSpec == FetchInit /\ [][FetchNext]_vars

\* Concurrent riotFetch calls whose requests, sleeps and continuations all
\* finish: the event loop runs every continuation that is ready, and upstream
\* answers every request.
LiveOutcomes == {Response(200, FALSE, <<>>), Response(404, FALSE, <<>>), Response(503, FALSE, <<>>)}
LiveFetchResolves(c) ==
  \E o \in LiveOutcomes :
    /\ ~ResOk(o.status) => faults < MaxAccFaults
    /\ FetchResolves(c, o)
LiveNext ==
  \/ RiotFetchCall
  \/ \E c \in Calls : RiotFetchStart(c)
  \/ \E c \in Calls : LiveFetchResolves(c)
  \/ \E c \in Calls : SleepResolves(c)
  \/ \E c \in Calls : RiotFetchSettle(c)
  \/ \E c \in Calls : RiotFetchReturns(c)
\* the next step of call c, whichever it is
LiveStep(c) ==
  \/ RiotFetchStart(c)
  \/ LiveFetchResolves(c)
  \/ SleepResolves(c)
  \/ RiotFetchSettle(c)
  \/ RiotFetchReturns(c)
LiveInit == FetchInit /\ RIOT_API_KEY = TRUE
LiveSpec ==
  /\ LiveInit
  /\ [][LiveNext]_vars
  /\ \A c \in Calls : WF_vars(LiveStep(c))

\* One riotFetch call, under every sequence of upstream outcomes.
PipeInit ==
  /\ InitCalls
  /\ RIOT_API_KEY \in BOOLEAN
PipeNext ==
  \/ (nCalls = 0 /\ RiotFetchCall)
  \/ \E c \in Calls : RiotFetchStart(c)
  \/ \E c \in Calls : \E o \in Outcomes : FetchResolves(c, o)
  \/ \E c \in Calls : SleepResolves(c)
  \/ \E c \in Calls : RiotFetchSettle(c)
  \/ \E c \in Calls : RiotFetchReturns(c)
PipeSpec == PipeInit /\ [][PipeNext]_vars

\* The cache alone, under callers that read any key with any ttl.
CacheInit == InitCalls /\ RIOT_API_KEY = TRUE
CacheNext ==
  \/ \E k \in CacheKeys : \E b \in Bodies : CacheSetOp(k, b)
  \/ \E k \in CacheKeys : \E ttlSeconds \in Ttls : CacheGetOp(k, ttlSeconds)
  \/ \E d \in TickSteps : Tick(d)
CacheSpec == CacheInit /\ [][CacheNext]_vars

\* The snapshot table, under callers that record any standing of any puuid.
SnapInit == InitCalls /\ RIOT_API_KEY = TRUE
SnapNext ==
  \/ \E p \in Puuids : \E s \in Standings : \E wl \in Records : RecordOp(p, s, wl)
  \/ \E d \in SnapTickSteps : Tick(d)
SnapSpec == SnapInit /\ [][SnapNext]_vars

\* attachLpChanges over the histories that recordLpSnapshot builds.
LpInit == InitCalls /\ RIOT_API_KEY = TRUE
LpNext ==
  \/ \E e \in LpEntries : SnapshotTaken(e)
  \/ \E d \in LpTickSteps : Elapse(d)
  \/ \E ms \in ResultSets : AttachOp(1, ms)
LpSpec == LpInit /\ [][LpNext]_vars

\* attachLpChanges over the history of a season.
SeasonInit == InitCalls /\ RIOT_API_KEY = TRUE
SeasonNext ==
  \/ SeasonSnapshot
  \/ (Len(lp_history) >= 2 /\ \E ms \in {<<FirstGame>>, <<LastGame>>} : AttachOp(1, ms))
SeasonSpec == SeasonInit /\ [][SeasonNext]_vars

\* The batch aggregations over cached and fetched match details, with the
\* snapshots that getRankedByPuuid records in between.
BatchInit == InitCalls /\ RIOT_API_KEY = TRUE
BatchNext ==
  \/ BatchSnapshot
  \/ \E p \in Puuids, ids \in Batches, fails \in SUBSET MatchIds :
       \/ MemberMatchHistory(p, ids, fails)
       \/ SeasonMatches(p, ids, fails)
       \/ PlayerLoader(p, ids, fails)
  \/ \E p \in Puuids : MemberMatchHistoryCaught(p)
BatchSpec == BatchInit /\ [][BatchNext]_vars

\* flatLp over the standings of the ladder.
FlatInit == InitCalls /\ RIOT_API_KEY = TRUE
FlatNext == \E before \in LadderStandings : \E after \in LadderStandings : FlatLpOp(before, after)
FlatSpec == FlatInit /\ [][FlatNext]_vars

\* Concurrent getRankedByPuuid calls over the pipeline, the cache and the
\* snapshot table, while upstream counts new games.
RankOutcomes == {Response(200, FALSE, <<>>), Response(404, FALSE, <<>>)}
RankTickSteps == {RANKED_TTL + 1}
RankInit == InitCalls /\ RIOT_API_KEY = TRUE
RankNext ==
  \/ \E p \in Puuids : \E forceFresh \in BOOLEAN : GetRanked(p, forceFresh)
  \/ \E c \in Calls : RiotFetchStart(c)
  \/ \E c \in Calls : \E o \in RankOutcomes :
        /\ ~ResOk(o.status) => faults < MaxAccFaults
        /\ FetchResolves(c, o)
  \/ \E c \in Calls : RiotFetchSettle(c)
  \/ \E i \in RankCalls : RankedResume(i)
  \/ \E i \in RankCalls : \E parses \in BOOLEAN : RankedJson(i, parses)
  \/ \E p \in Puuids : UpstreamPlay(p)
  \/ \E d \in RankTickSteps : Tick(d)
RankSpec == RankInit /\ [][RankNext]_vars

\* A burst of riotFetch calls under rate limits; the first calls of the burst
\* may be getMatchDetail calls for one match.
BurstOutcomes == {Response(200, FALSE, <<>>), Response(429, FALSE, <<>>)}
BurstInit == InitCalls /\ RIOT_API_KEY = TRUE
BurstNext ==
  \/ RiotFetchCall
  \/ (nCalls <= 1 /\ GetMatchDetail(1))
  \/ \E c \in Calls : RiotFetchStart(c)
  \/ \E c \in Calls : \E o \in BurstOutcomes :
        /\ (o.net \/ ~ResOk(o.status)) => faults < MaxAccFaults
        /\ FetchResolves(c, o)
  \/ \E c \in Calls : SleepResolves(c)
  \/ \E c \in Calls : RiotFetchSettle(c)
  \/ \E c \in Calls : RiotFetchReturns(c)
  \/ \E p \in Invs : AccessorResume(p)
  \/ \E p \in Invs : JsonResolves(p, <<7>>)
  \/ \E p \in Invs : FinallyCallback(p)
  \/ \E i \in Invs : Deliver(i)
BurstSpec == BurstInit /\ [][BurstNext]_vars

\* Concurrent accessor calls over the pipeline and the cache.
AccOutcomes == {NetErr, Response(200, FALSE, <<>>), Response(404, FALSE, <<>>)}
AccTickSteps == {MATCH_DETAIL_TTL, MATCH_DETAIL_TTL + 1}
AccKeys == {<<"account", 1>>} \cup {<<"match", m>> : m \in MatchIds}
Init == InitCalls /\ RIOT_API_KEY \in BOOLEAN
Next ==
  \/ \E k \in AccKeys : k[1] \in PlainKinds /\ GetPlain(k[1], k[2])
  \/ \E m \in MatchIds : GetMatchDetail(m)
  \/ \E c \in Calls : RiotFetchStart(c)
  \/ \E c \in Calls : \E o \in AccOutcomes :
        /\ (o.net \/ ~ResOk(o.status)) => faults < MaxAccFaults
        /\ FetchResolves(c, o)
  \/ \E c \in Calls : SleepResolves(c)
  \/ \E c \in Calls : RiotFetchSettle(c)
  \/ \E p \in Invs : AccessorResume(p)
  \/ \E p \in Invs : \E b \in Bodies \cup {BadBody} : JsonResolves(p, b)
  \/ \E p \in Invs : FinallyCallback(p)
  \/ \E i \in Invs : Deliver(i)
  \/ \E d \in AccTickSteps : Tick(d)
Spec == Init /\ [][Next]_vars

\* --------------------------------------------------------------- claims

Holding == {"acquired", "fetching", "sleepRetry", "sleepRate", "settling"}
Holders == {c \in Calls : pc[c] \in Holding}

\* C1: under any interleaving of acquire() and release() by holders, the
\* number of outstanding permits never exceeds max (5 for riotSemaphore):
\* active counts the callers that hold a permit and is at most 5.
C1_PermitsBounded ==
  /\ active = Cardinality(Holders)
  /\ active <= 5
  /\ max = 5

\* C1 witness: every permit is out and two callers wait.
C1_Witness == active = 5 /\ Len(queue) = 2

\* C2: permits are granted in acquire() order (a call's id is its rank in
\* that order). The queue holds exactly the waiting callers, oldest first,
\* and no later caller has a permit, or had one, while an earlier one waits.
C2_QueueInOrder ==
  /\ \A k \in 1 .. Len(queue) : pc[queue[k]] = "queued"
  /\ \A c \in Calls : pc[c] = "queued" => \E k \in 1 .. Len(queue) : queue[k] = c
  /\ \A k \in 1 .. Len(queue) - 1 : queue[k] < queue[k + 1]
  /\ \A c, d \in Calls :
        (c < d /\ pc[c] = "queued") => pc[d] \in {"idle", "queued"}

\* C2: a release() that finds waiters hands the permit, in the same step, to
\* the longest-waiting one and to nobody else.
C2_HandOff ==
  (queue # <<>> /\ \E c \in Calls : pc[c] \in Holding /\ pc'[c] \notin Holding)
    => /\ pc'[Head(queue)] = "acquired"
       /\ queue' = Tail(queue)
       /\ active' = active
       /\ \A d \in Calls : (pc[d] = "queued" /\ d # Head(queue)) => pc'[d] = "queued"

C2_Fifo == [] C2_QueueInOrder /\ [][C2_HandOff]_vars

\* C2 witness: a caller that waited holds a permit while a later one waits.
C2_Witness ==
  \E c, d \in Calls : c < d /\ waited[c] /\ pc[c] = "acquired" /\ pc[d] = "queued"

AllComplete == \A c \in Calls : pc[c] \in {"idle", "done", "returned"}

\* C3: a riotFetch call holds its permit from the grant until riotFetchInner
\* has settled and has released it exactly once when it completes, whatever
\* riotFetchInner returned or threw; when every started call has completed,
\* no permit is out and nobody waits.
C3_ReleasedOnEveryExit ==
  /\ \A c \in Calls :
        /\ pc[c] \in {"done", "returned"} => released[c] = 1
        /\ pc[c] \notin {"done", "returned"} => released[c] = 0
  /\ active = Cardinality(Holders)
  /\ AllComplete => (active = 0 /\ queue = <<>>)

\* C3 witness: a call that had to wait failed after its last network retry
\* and has released; nothing else runs.
C3_Witness ==
  /\ AllComplete
  /\ \E c \in Calls :
        /\ pc[c] = "done" /\ waited[c] /\ released[c] = 1
        /\ result[c].kind = "throw" /\ result[c].status = 0

AllNet(h) == \A k \in 1 .. Len(h) : h[k].net
All429(h) == \A k \in 1 .. Len(h) : ~h[k].net /\ h[k].status = 429

\* C9: a call whose every attempt is a network failure sleeps 2000 ms after
\* the first and 4000 ms after the second, and ends at the third attempt,
\* throwing the network error with status 0.
C9_NetworkExhaustion ==
  \A c \in Calls :
    (hist[c] # <<>> /\ AllNet(hist[c])) =>
      /\ Len(hist[c]) <= 3
      /\ pc[c] \in {"sleepRetry", "fetching"} =>
            /\ Len(hist[c]) < 3
            /\ sleeps[c] = [k \in 1 .. Len(hist[c]) |-> 2000 * k]
      /\ pc[c] \in {"settling", "done"} =>
            /\ Len(hist[c]) = 3
            /\ sleeps[c] = <<2000, 4000>>
            /\ result[c].kind = "throw" /\ result[c].status = 0
      /\ pc[c] \in {"sleepRetry", "fetching", "settling", "done"}

\* C9 witness: a call has failed after three network failures.
C9_Witness ==
  \E c \in Calls : pc[c] = "done" /\ Len(hist[c]) = 3 /\ AllNet(hist[c])

\* the delay, in seconds, that a 429 response supplies; 2 when it has none
SuppliedSeconds(o) ==
  IF ~o.hasRetryAfter \/ o.retryAfter = <<>> THEN 2
  ELSE IF o.retryAfter = <<0>> THEN 0
  ELSE IF o.retryAfter = <<7>> THEN 7
  ELSE IF o.retryAfter = <<1, 0>> THEN 10
  ELSE IF o.retryAfter = <<0, 3>> THEN 3
  ELSE -1

\* C10: a call whose every response is a 429 sleeps, after each of the first
\* three, for the delay that response supplies, and ends at the fourth
\* response, throwing the rate-limit error with status 429.
C10_RateLimitExhaustion ==
  \A c \in Calls :
    (hist[c] # <<>> /\ All429(hist[c])) =>
      /\ Len(hist[c]) <= 4
      /\ pc[c] \in {"sleepRate", "fetching"} =>
            /\ Len(hist[c]) < 4
            /\ sleeps[c] = [k \in 1 .. Len(hist[c]) |-> 1000 * SuppliedSeconds(hist[c][k])]
      /\ pc[c] \in {"settling", "done"} =>
            /\ Len(hist[c]) = 4
            /\ sleeps[c] = [k \in 1 .. 3 |-> 1000 * SuppliedSeconds(hist[c][k])]
            /\ result[c].kind = "throw" /\ result[c].status = 429
      /\ pc[c] \in {"sleepRate", "fetching", "settling", "done"}

\* C10 witness: a call has failed after four 429 responses, one that named
\* ten seconds, one that named none.
C10_Witness ==
  \E c \in Calls :
    /\ pc[c] = "done" /\ Len(hist[c]) = 4 /\ All429(hist[c])
    /\ hist[c][1].retryAfter = <<1, 0>>
    /\ ~hist[c][2].hasRetryAfter
    /\ sleeps[c] = <<10000, 2000, 7000>>

\* ---- the cache

\* C8: a read cacheGet(key, ttl) that finds an entry with now - cachedAt > ttl,
\* the ttl being the one of this call, returns null, and afterwards the entry
\* of that key is absent from the store and every other key is as it was.
C8_ExpiredReadDeletes ==
  (/\ lastOp.op = "get"
   /\ lastOp.before[lastOp.key].present
   /\ now - lastOp.before[lastOp.key].cached_at > lastOp.ttl)
  => /\ lastOp.ret = Null
     /\ ~cache[lastOp.key].present
     /\ cache = [lastOp.before EXCEPT ![lastOp.key] = NoRow]

\* match 1 is read with the match-detail ttl eight days after it was set,
\* while another key is stored
C8_Witness ==
  /\ lastOp.op = "get"
  /\ lastOp.key = <<"match", 1>>
  /\ lastOp.ttl = MATCH_DETAIL_TTL
  /\ lastOp.before[<<"match", 1>>].present
  /\ now - lastOp.before[<<"match", 1>>].cached_at = MATCH_DETAIL_TTL + ACCOUNT_TTL
  /\ lastOp.before[<<"matches", 1>>].present
  /\ lastOp.ret = Null
  /\ ~cache[<<"match", 1>>].present
  /\ cache[<<"matches", 1>>].present

\* ---- the accessors

MatchInvs == {i \in Invs : inv[i].kind = "match"}
InProgress(key) == {c \in Calls : callKey[c] = key /\ pc[c] \notin {"idle", "returned"}}

\* C7, in every state: a read of any key with any ttl that finds an entry with
\* now - cachedAt <= ttl returns the stored value and leaves the table as it
\* is; and an accessor call that found such an entry has hit.
C7_FreshIsReturned ==
  /\ \A k \in Keys : \A ttlSeconds \in Ttls :
        (cache[k].present /\ now - cache[k].cached_at <= ttlSeconds)
        => /\ cacheGet(k, ttlSeconds) = Value(orig[k])
           /\ cacheAfterGet(k, ttlSeconds) = cache
  /\ \A i \in Invs :
        (inv[i].kind # "none" /\ inv[i].age >= 0 /\ inv[i].age <= TtlOf(inv[i].kind))
        => inv[i].hit

\* C7, in every step: an accessor call that hits returns the stored value at
\* once, starts no upstream call, takes no permit and joins no queue, and
\* leaves the cache as it is.
C7_HitStep ==
  (nInv' = nInv + 1 /\ inv'[nInv'].hit)
  => /\ inv'[nInv'].got = OutValue(orig[<<inv'[nInv'].kind, inv'[nInv'].id>>])
     /\ inv'[nInv'].awaits = 0
     /\ UNCHANGED <<nCalls, active, queue, pc, upstreamCalls, cache, prom, inflightMatches>>

\* C7: a cache read that finds an entry with now - cachedAt <= ttl, the
\* boundary included, returns the stored value and leaves the entry in place;
\* an accessor whose read hits returns that value without an upstream call and
\* without acquiring a permit.
C7_CacheHit == [] C7_FreshIsReturned /\ [][C7_HitStep]_vars

\* a getMatchDetail call that found an entry exactly as old as the ttl
C7_Witness ==
  \E i \in MatchInvs :
    /\ inv[i].age = MATCH_DETAIL_TTL
    /\ inv[i].hit
    /\ inv[i].got.kind = "value"
    /\ upstreamCalls[KeyOf(i)] = 1

\* C4: getMatchDetail calls for one match id that miss the cache and are made
\* before the first of them settles share one promise, so that they receive
\* the same payload or the same failure, and one upstream call is made for
\* the match per such group of callers.
C4_SharedFetch ==
  /\ \A i, j \in MatchInvs :
        (inv[i].id = inv[j].id /\ ~inv[i].hit /\ ~inv[j].hit /\ inv[i].epoch = inv[j].epoch)
        => /\ inv[i].awaits = inv[j].awaits
           /\ (inv[i].got.kind # "pending" /\ inv[j].got.kind # "pending")
              => inv[i].got = inv[j].got
  /\ \A m \in MatchIds :
        upstreamCalls[<<"match", m>>] =
          settledProms[<<"match", m>>] + (IF inflightMatches[m] # 0 THEN 1 ELSE 0)

\* two callers of one match, both missing, have received the same payload
\* from the single upstream call
C4_Witness ==
  \E i, j \in MatchInvs :
    /\ i # j
    /\ inv[i].id = inv[j].id
    /\ ~inv[i].hit /\ ~inv[j].hit
    /\ inv[i].epoch = inv[j].epoch
    /\ inv[i].got.kind = "value"
    /\ inv[j].got = inv[i].got
    /\ upstreamCalls[KeyOf(i)] = 1

\* the in-flight map holds a match only while the promise of that match is
\* pending, and a call made after a failed fetch starts a fetch of its own
C5_InflightWhilePending ==
  /\ \A m \in MatchIds :
        inflightMatches[m] # 0
        => /\ PromPending(inflightMatches[m])
           /\ KeyOf(inflightMatches[m]) = <<"match", m>>
  /\ \A p \in MatchInvs :
        prom[p].state = "settled" => inflightMatches[inv[p].id] # p
  /\ \A i \in MatchInvs :
        inv[i].after = "fail" => (~inv[i].hit /\ inv[i].awaits = i /\ prom[i].state # "none")

\* C5 as stated: the registration of a match is removed once its fetch
\* settles, a call after a failed fetch starts a new fetch, and a call after
\* a successful fetch is served from the cache.
C5_AsStated ==
  /\ C5_InflightWhilePending
  /\ \A i \in MatchInvs : inv[i].after = "ok" => inv[i].hit

\* C5, amended: the registration of a match is removed once its fetch settles,
\* on success and on failure; a call after a failed fetch starts a new fetch;
\* a call after a successful fetch is served from the cache while the entry is
\* no older than MATCH_DETAIL_TTL, and starts a new fetch once it is older.
C5_Lifecycle ==
  /\ C5_InflightWhilePending
  /\ \A i \in MatchInvs :
        inv[i].after = "ok"
        => /\ inv[i].age >= 0
           /\ inv[i].age <= MATCH_DETAIL_TTL => (inv[i].hit /\ inv[i].awaits = 0)
           /\ inv[i].age > MATCH_DETAIL_TTL => (~inv[i].hit /\ inv[i].awaits = i)

\* a call after a successful fetch was served from the cache, with the
\* promise of that fetch settled and unregistered
C5_Witness ==
  \E i, p \in MatchInvs :
    /\ inv[i].after = "ok"
    /\ inv[i].hit
    /\ inv[p].id = inv[i].id
    /\ prom[p].state = "settled"
    /\ prom[p].outcome.kind = "value"
    /\ inflightMatches[inv[i].id] = 0

No429(h) == \A k \in 1 .. Len(h) : h[k].net \/ h[k].status # 429
Is5xx(o) == ~o.net /\ o.status >= 500
Settled(c) == pc[c] \in {"settling", "done"}

\* C11: a 5xx response is retried like a network failure, with the same
\* linear backoff and from the same budget: a call that has seen no 429 makes
\* at most 3 attempts, sleeps 2000 ms times the attempt number between them,
\* ends on a 5xx only at the third attempt, and then throws the generic
\* upstream error with the status of that response.
C11_ServerErrorBudget ==
  \A c \in Calls :
    (hist[c] # <<>> /\ No429(hist[c])) =>
      /\ Len(hist[c]) <= MAX_RETRIES
      /\ sleeps[c] = [k \in 1 .. Len(sleeps[c]) |-> RETRY_DELAY_MS * k]
      /\ \A k \in 1 .. Len(hist[c]) - 1 : hist[c][k].net \/ Is5xx(hist[c][k])
      /\ Is5xx(hist[c][Len(hist[c])]) =>
            IF Len(hist[c]) < MAX_RETRIES
            THEN /\ pc[c] \in {"sleepRetry", "fetching"}
                 /\ Len(sleeps[c]) = Len(hist[c])
            ELSE /\ Settled(c)
                 /\ sleeps[c] = <<2000, 4000>>
                 /\ result[c] = Throw(hist[c][Len(hist[c])].status, "Riot API error")

\* C11 witness: a network failure, a 503 and a 500; the call has thrown 500
C11_Witness ==
  \E c \in Calls :
    /\ pc[c] = "done"
    /\ Len(hist[c]) = 3
    /\ hist[c][1].net
    /\ hist[c][2].status = 503
    /\ hist[c][3].status = 500
    /\ result[c].kind = "throw" /\ result[c].status = 500

\* a response that is neither a 429 nor a 5xx
Final(o) == ~o.net /\ o.status # 429 /\ o.status < 500

\* C12: a response with status 401, 403, 404 or another non-2xx status that is
\* neither 429 nor 5xx ends the call at that attempt with an error of exactly
\* that status, with no sleep and no attempt after it, whatever the counters
\* are; a 2xx response is returned as the result.
C12_FinalStatus ==
  \A c \in Calls : \A k \in 1 .. Len(hist[c]) :
    Final(hist[c][k]) =>
      /\ k = Len(hist[c])
      /\ Settled(c)
      /\ Len(sleeps[c]) = k - 1
      /\ result[c].kind = (IF ResOk(hist[c][k].status) THEN "return" ELSE "throw")
      /\ result[c].status = hist[c][k].status

\* C12 witness: after a network failure and a 429, hence with both counters
\* raised, a 404 has ended the call
C12_Witness ==
  \E c \in Calls :
    /\ pc[c] = "done"
    /\ Len(hist[c]) = 3
    /\ hist[c][1].net
    /\ hist[c][2].status = 429
    /\ hist[c][3].status = 404
    /\ attempt[c] = 2 /\ rateLimitRetries[c] = 1
    /\ result[c] = Throw(404, "Not found")

\* without a credential a call makes no upstream request, does not sleep, and
\* throws the error that names the missing credential
C13_NoRequest ==
  \A c \in Calls :
    ~RIOT_API_KEY =>
      /\ pc[c] \notin {"fetching", "sleepRetry", "sleepRate"}
      /\ hist[c] = <<>> /\ sleeps[c] = <<>>
      /\ Settled(c) => result[c] = Throw(403, "RIOT_API_KEY is not configured")

C14_RecordsOnChange ==
  lastRec.op = "record" =>
    LET before == lastRec.before
        row == lastRec.row
        mine == getLpSnapshots(before, row.puuid)
    IN
    /\ IF mine = <<>> \/ mine[Len(mine)].wins # row.wins \/ mine[Len(mine)].losses # row.losses
       THEN lp_history = Append(before, row)
       ELSE lp_history = before
    /\ \A q \in Puuids \ {row.puuid} :
          getLpSnapshots(lp_history, q) = getLpSnapshots(before, q)

\* C14 witness: a call with the wins and losses of the subject's newest
\* snapshot and another tier, division and lp has written nothing, while
\* another subject has a snapshot with other wins
C14_Witness ==
  /\ lastRec.op = "record"
  /\ lp_history = lastRec.before
  /\ Len(getLpSnapshots(lp_history, 1)) = 1
  /\ Len(getLpSnapshots(lp_history, 2)) = 1
  /\ lastRec.row.puuid = 1
  /\ getLpSnapshots(lp_history, 2)[1].wins # lastRec.row.wins
  /\ getLpSnapshots(lp_history, 1)[1].wins = lastRec.row.wins
  /\ getLpSnapshots(lp_history, 1)[1].losses = lastRec.row.losses
  /\ getLpSnapshots(lp_history, 1)[1].tier # lastRec.row.tier
  /\ getLpSnapshots(lp_history, 1)[1].rank # lastRec.row.rank
  /\ getLpSnapshots(lp_history, 1)[1].lp # lastRec.row.lp

Games(s) == s.wins + s.losses

\* C15: for every subject, consecutive snapshots of the time-ordered history
\* are non-decreasing in wins + losses, under any interleaving of concurrent
\* getRankedByPuuid calls and any order of arrival of their responses.
C15_GamesNonDecreasing ==
  \A p \in Puuids :
    \A k \in 1 .. Len(getLpSnapshots(lp_history, p)) - 1 :
      Games(getLpSnapshots(lp_history, p)[k]) <= Games(getLpSnapshots(lp_history, p)[k + 1])

\* a step of a getRankedByPuuid call that has just read fresh ranked data
\* with a solo-queue entry
FreshStep(i) ==
  /\ rk[i].state = "awaitJson"
  /\ rk'[i].state = "returned"
  /\ rk[i].body.hasSolo
  /\ ~rk[i].hit

\* C16: the snapshot history is an append-only log. A step either leaves it
\* as it is or appends one snapshot to it, and it appends only in a
\* getRankedByPuuid call that has just fetched fresh ranked data with a
\* solo-queue entry: not in a call served from the cache, nor in one whose
\* fetch failed or found no solo-queue entry.
C16_Step ==
  \/ lp_history' = lp_history
  \/ \E i \in RankCalls :
        /\ FreshStep(i)
        /\ Len(lp_history') = Len(lp_history) + 1
        /\ SubSeq(lp_history', 1, Len(lp_history)) = lp_history
        /\ lp_history'[Len(lp_history')] =
             LpSnapshot(rk[i].puuid, rk[i].body.tier, rk[i].body.rank, rk[i].body.lp,
                        rk[i].body.wins, rk[i].body.losses, now)
C16_AppendOnly == [][C16_Step]_vars

\* C16 witness: one call has fetched and recorded, and a later call of the
\* same subject was served from the cache; the history holds the one snapshot
C16_Witness ==
  /\ Len(lp_history) = 1
  /\ \E i, j \in RankCalls :
        /\ i # j
        /\ rk[i].puuid = rk[j].puuid
        /\ rk[i].state = "returned" /\ ~rk[i].hit /\ rk[i].got # <<0>>
        /\ rk[j].state = "returned" /\ rk[j].hit

\* ---- the LP changes

\* the ladder value of a standing
TierBase(tier) ==
  CASE tier = "IRON" -> 0 [] tier = "BRONZE" -> 400 [] tier = "SILVER" -> 800
    [] tier = "GOLD" -> 1200 [] tier = "PLATINUM" -> 1600 [] tier = "EMERALD" -> 2000
    [] tier = "DIAMOND" -> 2400 [] OTHER -> 2800
DivisionBase(rank) ==
  CASE rank = "IV" -> 0 [] rank = "III" -> 100 [] rank = "II" -> 200 [] rank = "I" -> 300
    [] OTHER -> 0
Flatten(s) ==
  IF TierBase(s.tier) = 2800 THEN 2800 + s.lp
  ELSE TierBase(s.tier) + DivisionBase(s.rank) + s.lp

\* the end of a match in whole seconds; what the last attachLpChanges call
\* read and returned
EndSeconds(m) == m.gameCreation \div 1000 + m.gameDuration
Attached == lastRec.op = "attach"
Snaps == getLpSnapshots(lastRec.before, lastRec.row.puuid)
Pairs == 1 .. Len(Snaps) - 1
Out == lastRec.out
Ranked(k) == Out[k].queueId = 420
GamesBetween(i) == Games(Snaps[i + 1]) - Games(Snaps[i])
Delta(i) == Flatten(Snaps[i + 1]) - Flatten(Snaps[i])
Inside(k, i) ==
  Snaps[i].recorded_at < EndSeconds(Out[k]) /\ EndSeconds(Out[k]) < Snaps[i + 1].recorded_at
EndsIn(k, i) ==
  Snaps[i].recorded_at < EndSeconds(Out[k]) /\ EndSeconds(Out[k]) <= Snaps[i + 1].recorded_at
AsClaimed(k, i) ==
  Snaps[i].recorded_at <= EndSeconds(Out[k]) /\ EndSeconds(Out[k]) < Snaps[i + 1].recorded_at
Alone(k, i) == \A j \in 1 .. Len(Out) : (j # k /\ Ranked(j)) => ~EndsIn(j, i)

C18_UnsetUnlessOneGame ==
  Attached =>
    \A k \in 1 .. Len(Out) :
      (\/ ~Ranked(k)
       \/ \A i \in Pairs : ~(EndsIn(k, i) \/ AsClaimed(k, i))
       \/ \E i \in Pairs : Inside(k, i) /\ GamesBetween(i) # 1)
      => ~Out[k].hasLpChange

\* C19 as stated: the bracketing pair of a match is the consecutive pair with
\* before.recordedAt <= gameEndTime < after.recordedAt; a match has at most
\* one, and gets an lpChange only from it.
C19_AsStated ==
  Attached =>
    \A k \in 1 .. Len(Out) :
      Ranked(k) =>
        /\ Cardinality({i \in Pairs : AsClaimed(k, i)}) <= 1
        /\ Out[k].hasLpChange => \E i \in Pairs : AsClaimed(k, i) /\ GamesBetween(i) >= 1

\* C19, amended: the bracketing pair of a match is the consecutive pair with
\* before.recordedAt < gameEndTime <= after.recordedAt, gameEndTime being the
\* creation time plus the duration in whole seconds: a match that ends
\* exactly at a snapshot's timestamp has that snapshot as `after`; a match has
\* at most one bracketing pair, and gets its lpChange from it and no other.
C19_Bracket ==
  Attached =>
    \A k \in 1 .. Len(Out) :
      Ranked(k) =>
        /\ Cardinality({i \in Pairs : EndsIn(k, i)}) <= 1
        /\ Out[k].hasLpChange <=> \E i \in Pairs : EndsIn(k, i) /\ GamesBetween(i) >= 1
        /\ \A i \in Pairs :
              (EndsIn(k, i) /\ GamesBetween(i) >= 1 /\ Alone(k, i)) => Out[k].lpChange = Delta(i)

\* C19 witness: of three snapshots the second was taken at 1000, when the
\* match ended; the match has the change of the first pair, not of the second
C19_Witness ==
  /\ Attached
  /\ Len(Snaps) = 3
  /\ Len(Out) = 1
  /\ EndSeconds(Out[1]) = Snaps[2].recorded_at
  /\ Snaps[1].recorded_at < Snaps[2].recorded_at
  /\ Snaps[2].recorded_at < Snaps[3].recorded_at
  /\ GamesBetween(1) = 1 /\ GamesBetween(2) = 1
  /\ Delta(1) # Delta(2)
  /\ Out[1].hasLpChange /\ Out[1].lpChange = Delta(1)

\* ---- the ladder

\* the place of a tier and of a division on the ladder; the apex tiers share
\* the place above DIAMOND
LadderTier(tier) ==
  CASE tier = "IRON" -> 1 [] tier = "BRONZE" -> 2 [] tier = "SILVER" -> 3
    [] tier = "GOLD" -> 4 [] tier = "PLATINUM" -> 5 [] tier = "EMERALD" -> 6
    [] tier = "DIAMOND" -> 7 [] OTHER -> 8
LadderDivision(rank) ==
  CASE rank = "IV" -> 1 [] rank = "III" -> 2 [] rank = "II" -> 3 [] rank = "I" -> 4
Divisioned(s) == LadderTier(s.tier) <= 7
Lower(a, b) ==
  \/ LadderTier(a.tier) < LadderTier(b.tier)
  \/ /\ LadderTier(a.tier) = LadderTier(b.tier)
     /\ Divisioned(a)
     /\ \/ LadderDivision(a.rank) < LadderDivision(b.rank)
        \/ LadderDivision(a.rank) = LadderDivision(b.rank) /\ a.lp < b.lp
Flattened == lastRec.op = "flatLp"

\* C20: for lp in 0..99, flatLp is strictly increasing in the ladder order: a
\* standing that is lower in (tier, division, lp) lexicographic order maps to
\* a strictly smaller integer, every divisioned standing maps below every apex
\* standing, and flatLp(GOLD, I, 99) < flatLp(PLATINUM, IV, 0).
C20_FlatLpIncreasing ==
  Flattened =>
    LET a == lastRec.before[1]
        b == lastRec.before[2]
    IN
    /\ Lower(a, b) => lastRec.out[1] < lastRec.out[2]
    /\ (Divisioned(a) /\ ~Divisioned(b)) => lastRec.out[1] < lastRec.out[2]
    /\ (/\ a.tier = "GOLD" /\ a.rank = "I" /\ a.lp = 99
        /\ b.tier = "PLATINUM" /\ b.rank = "IV" /\ b.lp = 0) => lastRec.out[1] < lastRec.out[2]

\* C20 witness: GOLD I 99 and PLATINUM IV 0 were flattened, to 1599 and 1600
C20_Witness ==
  /\ Flattened
  /\ lastRec.before[1].tier = "GOLD" /\ lastRec.before[1].rank = "I"
  /\ lastRec.before[1].lp = 99
  /\ lastRec.before[2].tier = "PLATINUM" /\ lastRec.before[2].rank = "IV"
  /\ lastRec.before[2].lp = 0
  /\ lastRec.out = <<1599, 1600>>

\* ---- the two retry counters

\* the requests of a history that were answered by a 429, and those that
\* failed in the network or were answered by a 5xx
RateLimited(h) == {k \in 1 .. Len(h) : ~h[k].net /\ h[k].status = 429}
Failed(h) == {k \in 1 .. Len(h) : h[k].net \/ Is5xx(h[k])}
\* the requests of c that a retry has followed
Retried(c) ==
  IF pc[c] = "fetching" THEN hist[c] ELSE SubSeq(hist[c], 1, Len(hist[c]) - 1)

\* C25: within one call the two retry counters advance independently: the
\* attempt counter is 1 plus the network and 5xx retries, rateLimitRetries is
\* the number of 429 retries, neither is reset by a retry of the other kind;
\* the call ends in a return or a throw after at most MAX_RETRIES +
\* MAX_RATE_LIMIT_RETRIES = 6 upstream requests.
C25_IndependentCounters ==
  \A c \in Calls :
    hist[c] # <<>> =>
      /\ attempt[c] = 1 + Cardinality(Failed(Retried(c)))
      /\ rateLimitRetries[c] = Cardinality(RateLimited(Retried(c)))
      /\ attempt[c] <= MAX_RETRIES
      /\ rateLimitRetries[c] <= MAX_RATE_LIMIT_RETRIES
      /\ Len(hist[c]) <= MAX_RETRIES + MAX_RATE_LIMIT_RETRIES
      /\ Len(hist[c]) <= 6
      /\ Settled(c) => result[c].kind \in {"throw", "return"}
      /\ (Len(hist[c]) = 6 /\ pc[c] # "fetching") => Settled(c)

\* C25 witness: 429s and network failures in turn; the sixth request, a
\* fourth 429 after two network failures, has ended the call
C25_Witness ==
  \E c \in Calls :
    /\ pc[c] = "done"
    /\ Len(hist[c]) = 6
    /\ hist[c][1].status = 429 /\ hist[c][2].net /\ hist[c][3].status = 429
    /\ hist[c][4].net /\ hist[c][5].status = 429 /\ hist[c][6].status = 429
    /\ attempt[c] = 3 /\ rateLimitRetries[c] = 3
    /\ result[c] = Throw(429, "Rate limited by Riot API (max retries exceeded)")

\* ---- requests and permits

\* the calls between their first upstream request and their final outcome
InFlight == {c \in Calls : pc[c] \in {"fetching", "sleepRetry", "sleepRate", "settling"}}
\* the callers that wait for the promise p, and the promises made so far for
\* the key of p
Sharers(p) == {i \in Invs : inv[i].awaits = p}
Promises(key) == {p \in Invs : prom[p].state # "none" /\ KeyOf(p) = key}

\* C27: every upstream request, and every sleep between two requests, of a
\* riotFetch call happens while the call holds a permit it has not yet given
\* back, so at most 5 calls are at any time between their first request and
\* their outcome; the callers that share a deduplicated match fetch have made
\* one riotFetch call, hence taken one permit, between them.
C27_RequestsUnderPermit ==
  /\ \A c \in InFlight : released[c] = 0
  /\ \A c \in Calls :
        (hist[c] # <<>> \/ sleeps[c] # <<>>) =>
          /\ c \in InFlight \/ pc[c] = "done"
          /\ Len(sleeps[c]) <= Len(hist[c])
  /\ Cardinality(InFlight) <= active
  /\ Cardinality(InFlight) <= 5
  /\ \A p \in Invs :
        Cardinality(Sharers(p)) >= 2 =>
          /\ upstreamCalls[KeyOf(p)] = Cardinality(Promises(KeyOf(p)))
          /\ Cardinality({c \in Calls : callKey[c] = KeyOf(p) /\ pc[c] \in Holding}) <= 1
          /\ released[prom[p].call] <= 1

\* C27 witness: five calls are in flight, one of them asleep after a 429 and
\* one of them the call that two getMatchDetail callers share, and a sixth
\* call waits for a permit
C27_Witness ==
  /\ Cardinality(InFlight) = 5
  /\ \E c \in InFlight : pc[c] = "sleepRate"
  /\ \E c \in Calls : pc[c] = "queued"
  /\ \E p \in Invs :
        /\ Cardinality(Sharers(p)) = 2
        /\ prom[p].state = "awaitFetch"
        /\ prom[p].call \in InFlight
        /\ upstreamCalls[KeyOf(p)] = 1

\* ---- progress

Started == {"queued", "acquired", "fetching", "sleepRetry", "sleepRate", "settling"}

\* C28: provided every upstream request and every sleep finishes, every
\* caller suspended in acquire() is eventually granted a permit, and every
\* riotFetch call eventually returns or throws: no call stays queued, and no
\* call stays under way, from some time on for ever.
C28_EveryWaiterServed ==
  \A c \in Calls :
    /\ []<>(pc[c] # "queued")
    /\ []<>(pc[c] \notin Started)

\* C28 witness: a call that was queued behind five others has completed,
\* after a call before it slept and retried
C28_Witness ==
  \E c, d \in Calls :
    /\ d < c
    /\ waited[c] /\ pc[c] = "done"
    /\ sleeps[d] # <<>>

\* ---- getRankedByPuuid fails soft

\* the riotFetch call of getRankedByPuuid call i has thrown, and the call
\* takes the throw in this step
FetchFailsNow(i) ==
  /\ rk[i].state = "awaitFetch"
  /\ rk'[i].state # "awaitFetch"
  /\ result[rk[i].call].kind = "throw"

C24_Step ==
  \A i \in RankCalls :
    FetchFailsNow(i) =>
      /\ rk'[i].state = "returned"
      /\ rk'[i].got = <<0>>
      /\ cache' = cache
      /\ lp_history' = lp_history
      /\ \A j \in RankCalls : j # i => rk'[j] = rk[j]

\* C24: for every terminal error of its riotFetch call getRankedByPuuid
\* returns null instead of rejecting, and writes neither the ranked cache
\* entry nor a snapshot; the other lookups of a batch are not affected.
C24_FailsSoft == [][C24_Step]_vars

\* C24 witness: of two lookups the one for subject 2 has failed and returned
\* null, leaving no cache entry and no snapshot; the one for subject 1 has
\* returned the standing
C24_Witness ==
  \E i, j \in RankCalls :
    /\ rk[i].state = "returned" /\ rk[i].puuid = 2 /\ ~rk[i].hit /\ rk[i].got = <<0>>
    /\ ~cache[<<"ranked", 2>>].present
    /\ getLpSnapshots(lp_history, 2) = <<>>
    /\ rk[j].state = "returned" /\ rk[j].puuid = 1 /\ ~rk[j].hit /\ rk[j].got # <<0>>
    /\ cache[<<"ranked", 1>>].present

\* ---- the cache writes of the accessors

\* the body of the accessor call p has thrown
BodyFailed(p) == prom[p].outcome.kind = "error"
\* the body of p ends in this step, with a throw or with a value
FailsNow(p) == prom[p].outcome.kind = "pending" /\ prom'[p].outcome.kind = "error"
SucceedsNow(p) == prom[p].outcome.kind = "pending" /\ prom'[p].outcome.kind = "value"
\* an accessor call begins in this step, for the key of call nInv + 1
BeginsNow == nInv' = nInv + 1
\* the only change of the table in this step is that the expired row of
\* `key` is gone
ExpiredRowGone(key) ==
  /\ cache[key].present
  /\ now - cache[key].cached_at > TtlOf(key[1])
  /\ cache' = [cache EXCEPT ![key] = NoRow]

\* C29 as stated: when the fetch of an accessor call fails or its body does
\* not parse, the cache is what it was before the call: an entry that the key
\* had when the call began is still there.
C29_AsStated ==
  \A p \in Invs :
    (BodyFailed(p) /\ inv[p].age >= 0) => cache[KeyOf(p)].present

C29_Step ==
  /\ \A p \in Invs : FailsNow(p) => cache' = cache
  /\ \A p \in Invs :
        SucceedsNow(p) =>
          /\ cache'[KeyOf(p)].present
          /\ cache'[KeyOf(p)].cached_at = now
          /\ JSONparse(cache'[KeyOf(p)].data) = prom'[p].outcome.value
          /\ \A k \in Keys : k # KeyOf(p) => cache'[k] = cache[k]
  /\ cache' # cache =>
        \/ \E p \in Invs : SucceedsNow(p)
        \/ BeginsNow /\ ExpiredRowGone(<<inv'[nInv'].kind, inv'[nInv'].id>>)

\* C29, amended: an accessor calls cacheSet only when its pipeline call has
\* returned 2xx and the body has been decoded; the step in which its fetch
\* fails, or its body fails to parse, leaves the cache as it is, and the
\* step in which it succeeds leaves under its key the value it returns. The
\* one other change an accessor makes is at its beginning, where the cacheGet
\* of a call that finds an expired entry under its key deletes that entry;
\* the entry stays deleted when the call then fails.
C29_WritesOnSuccess == [][C29_Step]_vars

\* C29 witness: an accessor call found an expired entry, which its cacheGet
\* deleted, and then failed: the key has no entry
C29_Witness ==
  \E p \in Invs :
    /\ BodyFailed(p)
    /\ prom[p].state = "settled"
    /\ inv[p].age > TtlOf(inv[p].kind)
    /\ ~cache[KeyOf(p)].present
    /\ \E q \in Invs : q < p /\ KeyOf(q) = KeyOf(p) /\ prom[q].outcome.kind = "value"

\* ---- the estimated LP changes

\* C26: when several ranked matches of the result set end between the same
\* two snapshots, the difference is shared so that every won match gets an
\* lpChange >= 0 and every lost match an lpChange <= 0, whatever the
\* difference and the mix of wins and losses.
C26_SignedShares ==
  Attached =>
    \A k \in 1 .. Len(Out) : \A i \in Pairs :
      (Ranked(k) /\ EndsIn(k, i) /\ ~Alone(k, i) /\ Out[k].hasLpChange) =>
        IF Out[k].win THEN Out[k].lpChange >= 0 ELSE Out[k].lpChange <= 0

\* ---- long histories

\* all snapshots of the subject of the last attachLpChanges call
History == OfPuuid(lastRec.before, lastRec.row.puuid)
BracketedByHistory(k, i) ==
  /\ History[i].recorded_at < EndSeconds(Out[k])
  /\ EndSeconds(Out[k]) <= History[i + 1].recorded_at
  /\ Games(History[i + 1]) - Games(History[i]) = 1

\* C30: attachLpChanges scans the whole snapshot history of the subject: for
\* a history of any length, a ranked match that two consecutive snapshots
\* with exactly one game between them bracket gets its lpChange, also when
\* they are the two most recent snapshots of a long history.
C30_WholeHistory ==
  Attached =>
    \A k \in 1 .. Len(Out) : \A i \in 1 .. Len(History) - 1 :
      (Ranked(k) /\ BracketedByHistory(k, i)) => Out[k].hasLpChange

\* ------------------------------------------- lpChange and the cached payload

\* the rows of the subject of an aggregation, and a pair of them that
\* brackets the end of a match
OwnRows(rec) == OfPuuid(rec.before, rec.row.puuid)
BracketedByOwn(rec, m) ==
  \E i \in 1 .. Len(OwnRows(rec)) - 1 :
    /\ OwnRows(rec)[i].recorded_at < EndSeconds(m)
    /\ EndSeconds(m) <= OwnRows(rec)[i + 1].recorded_at

\* C21: attachLpChanges for one subject writes lpChange onto the match
\* records of that call only and leaves the cache alone: a cached entry
\* match:{matchId} that the aggregation read is the same row afterwards, every
\* cached payload is what upstream sent, a record that processMatch has just
\* built carries no lpChange whoever was served before, and an lpChange in the
\* result comes from two snapshots of the subject itself.
C21_Step ==
  lastRec'.op \in AggregateOps =>
    /\ \A m \in MatchIds : CacheHit(m) => cache'[MatchKey(m)] = cache[MatchKey(m)]
    /\ \A m \in MatchIds :
         cache'[MatchKey(m)].present => JSONparse(cache'[MatchKey(m)].data) = MatchDetails[m]
    /\ \A k \in 1 .. Len(lastRec'.matches) : ~lastRec'.matches[k].hasLpChange
    /\ \A k \in 1 .. Len(lastRec'.out) :
         lastRec'.out[k].hasLpChange => BracketedByOwn(lastRec', lastRec'.out[k])
C21_PayloadUntouched == [][C21_Step]_vars

\* match 1 got an lpChange for player 1; then it was processed for player 2
\* from the cache and carries none
C21_Witness ==
  /\ lastRec.op \in {"getMemberMatchHistory", "loader"}
  /\ lastRec.row.puuid = 2
  /\ <<1, 1>> \in lastRec.given
  /\ \E k \in 1 .. Len(lastRec.out) : lastRec.out[k].matchId = 1 /\ ~lastRec.out[k].hasLpChange
  /\ cache[MatchKey(1)].present
  /\ lastRec.failed = 0

\* ------------------------------------------------- partial failure of a batch

\* C22: getMemberMatchHistory never rejects and tolerates partial failure of
\* its batch: no error when no match fetch failed; the loaded matches with a
\* warning that gives the loaded and the failed count when some but not all
\* fetches failed; the error "All matches failed" only when every fetch of
\* the batch failed.
C22_PartialFailure ==
  (lastRec.op = "getMemberMatchHistory" /\ lastRec.error.kind # "message") =>
    /\ ~lastRec.rejected
    /\ lastRec.failed = 0 => lastRec.error = NoError
    /\ (0 < lastRec.failed /\ lastRec.failed < Len(lastRec.ids)) =>
         /\ lastRec.error.kind = "partial"
         /\ lastRec.error.loaded = Len(lastRec.out)
         /\ lastRec.error.failed = lastRec.failed
    /\ lastRec.error.kind = "all" => lastRec.failed = Len(lastRec.ids)

\* the matches of the batch that are not in the result; what the consumer is
\* handed; what it is handed for the batch without the lost matches
Lost == Len(lastRec.ids) - Len(lastRec.out)
Returned == [matches |-> lastRec.out, error |-> lastRec.error, hasMore |-> lastRec.hasMore]
WithoutTheLost ==
  [matches |-> lastRec.out, error |-> NoError,
   hasMore |-> (lastRec.op = "loader" /\ Len(lastRec.out) = MATCHES_PER_PAGE)]

\* C23: no batch aggregation truncates silently: when a match of the batch
\* failed to load or was dropped, the value handed to the consumer differs
\* from the value for the batch without that match.
C23_NoSilentTruncation ==
  (lastRec.op \in AggregateOps /\ lastRec.error.kind # "message" /\ Lost > 0) =>
    Returned # WithoutTheLost

====
